---- MODULE Spec2Model ----
(***************************************************************************)
(* A model of the randomx-rs host layer (src/src/lib.rs): the reference    *)
(* counted Cache and Dataset wrappers, the VM with its flag validation and *)
(* rebinding, the single and the pipelined hash, and the native engine the *)
(* wrappers drive.                                                         *)
(*                                                                         *)
(* The heap of wrapper objects and the engine's native objects are held in *)
(* one record (Heap); every public operation of lib.rs is an operator from *)
(* a heap to a heap, its engine calls appended to the heap's call log and  *)
(* its result left in the heap's ret field.  An action applies one         *)
(* operation and commits the resulting heap.                               *)
(***************************************************************************)
EXTENDS Integers, Sequences, FiniteSets, TLC

VARIABLES
    caches,       \* Arc<RandomXCacheInner> allocations, by id
    datasets,     \* Arc<RandomXDatasetInner> allocations, by id
    vms,          \* RandomXVM values, by id
    ext_cache,    \* RandomXCache handles the caller holds, per inner
    ext_dataset,  \* RandomXDataset handles the caller holds, per inner
    ncache,       \* engine side: native caches, by handle
    ndataset,     \* engine side: native datasets, by handle
    nvm,          \* engine side: native VMs, by handle
    calls,        \* engine calls made by the last operation, in order
    ret,          \* the last operation and its result
    threads,      \* statement-level position of each thread (SpecThreads)
    lock_owner    \* holder of the cache's Mutex (SpecThreads)

vars == <<caches, datasets, vms, ext_cache, ext_dataset, ncache, ndataset, nvm,
          calls, ret, threads, lock_owner>>

-----------------------------------------------------------------------------
(* Bounds of the model *)

MaxObjects == 3
MaxClones == 2
MaxInputs == 3
NumItems == 2
NumThreads == 2

\* at most MaxObjects caches, datasets and VMs are ever created, a dataset
\* after its cache
CacheIds == 1..(MaxObjects - 1)
DatasetIds == 1..(MaxObjects - 2)
VmIds == 1..(MaxObjects - 1)
Null == 0

\* Byte strings: keys and hash inputs.  The empty one is rejected by the code.
Bytes == {<<>>, <<1>>, <<2>>}
NonEmptyBytes == Bytes \ {<<>>}

-----------------------------------------------------------------------------
(* RandomXFlag: a u32 bit set *)

FLAG_DEFAULT == 0
FLAG_FULL_MEM == 4
FLAG_JIT == 8

\* bitflags' contains for a one-bit flag
contains(flags, bit) == (flags \div bit) % 2 = 1

-----------------------------------------------------------------------------
(* u32 values, held as two 16-bit limbs <<hi, lo>> *)

Limb == 65536

U32(n) == <<n \div Limb, n % Limb>>

U32Max == <<Limb - 1, Limb - 1>>

\* the mathematical sum of two u32 values: <<carry, hi, lo>>
WideAdd(a, b) ==
    LET lo == a[2] + b[2]
        hi == a[1] + b[1] + (lo \div Limb)
    IN  <<hi \div Limb, hi % Limb, lo % Limb>>

\* u32 + u32 as the processor computes it
WrappingAdd(a, b) == <<WideAdd(a, b)[2], WideAdd(a, b)[3]>>

Overflows(a, b) == WideAdd(a, b)[1] > 0

U32Le(a, b) == a[1] < b[1] \/ (a[1] = b[1] /\ a[2] <= b[2])

\* carry:hi:lo <= u32
WideLe(w, b) == w[1] = 0 /\ U32Le(<<w[2], w[3]>>, b)

-----------------------------------------------------------------------------
(* The heap *)

Heap ==
    [caches |-> caches, datasets |-> datasets, vms |-> vms,
     ext_cache |-> ext_cache, ext_dataset |-> ext_dataset,
     ncache |-> ncache, ndataset |-> ndataset, nvm |-> nvm,
     calls |-> calls, ret |-> ret]

CommitHeap(h) ==
    /\ caches' = h.caches
    /\ datasets' = h.datasets
    /\ vms' = h.vms
    /\ ext_cache' = h.ext_cache
    /\ ext_dataset' = h.ext_dataset
    /\ ncache' = h.ncache
    /\ ndataset' = h.ndataset
    /\ nvm' = h.nvm
    /\ calls' = h.calls
    /\ ret' = h.ret

\* a whole operation run by the one caller of the sequential specifications
Commit(h) ==
    /\ CommitHeap(h)
    /\ UNCHANGED <<threads, lock_owner>>

\* an engine call: the function, its handle arguments, its data arguments
Call(fn, vm, cache, dataset, data) ==
    [fn |-> fn, vm |-> vm, cache |-> cache, dataset |-> dataset, data |-> data]

Log(h, fn, vm, cache, dataset, data) ==
    [h EXCEPT !.calls = Append(@, Call(fn, vm, cache, dataset, data))]

\* the result of an operation: the object it is about, the result, the digests;
\* args holds the arguments the caller passed
Ret(op, obj, res, val) ==
    [op |-> op, obj |-> obj, args |-> <<>>, res |-> res, val |-> val]

WithArgs(h, args) == [h EXCEPT !.ret.args = args]

Return(h, op, obj, res, val) == [h EXCEPT !.ret = Ret(op, obj, res, val)]

\* a new operation starts with an empty call log
Begin == [Heap EXCEPT !.calls = <<>>]

NoCache == [st |-> "unborn", strong |-> 0, cache_ptr |-> Null, poisoned |-> FALSE]
NoDataset == [st |-> "unborn", strong |-> 0, dataset_ptr |-> Null,
              dataset_count |-> U32(0), cache |-> Null]
NoVM == [st |-> "unborn", flags |-> FLAG_DEFAULT, vm |-> Null,
         linked_cache |-> Null, linked_dataset |-> Null]
NoNCache == [allocated |-> FALSE, key |-> <<>>, released |-> 0]
NoNDataset == [allocated |-> FALSE, items |-> [i \in 0..(NumItems - 1) |-> <<>>],
               released |-> 0]
NoNVM == [created |-> FALSE, flags |-> FLAG_DEFAULT, cache |-> Null, dataset |-> Null,
          inflight |-> <<>>, destroyed |-> 0]

EmptyHeap ==
    [caches |-> [c \in CacheIds |-> NoCache],
     datasets |-> [d \in DatasetIds |-> NoDataset],
     vms |-> [v \in VmIds |-> NoVM],
     ext_cache |-> [c \in CacheIds |-> 0],
     ext_dataset |-> [d \in DatasetIds |-> 0],
     ncache |-> [c \in CacheIds |-> NoNCache],
     ndataset |-> [d \in DatasetIds |-> NoNDataset],
     nvm |-> [v \in VmIds |-> NoNVM],
     calls |-> <<>>,
     ret |-> Ret("none", Null, "Ok", <<>>)]

\* the heap h as the initial state
Install(h) ==
    /\ caches = h.caches
    /\ datasets = h.datasets
    /\ vms = h.vms
    /\ ext_cache = h.ext_cache
    /\ ext_dataset = h.ext_dataset
    /\ ncache = h.ncache
    /\ ndataset = h.ndataset
    /\ nvm = h.nvm
    /\ calls = <<>>
    /\ ret = Ret("none", Null, "Ok", <<>>)

-----------------------------------------------------------------------------
(* The engine: the primitives of bindings.rs, as the wrappers use them.    *)
(* A native object is named by its handle; Null is the null pointer.       *)

\* the handle the next successful allocation returns
FreshCache(h) ==
    IF \E c \in CacheIds : ~h.ncache[c].allocated
    THEN CHOOSE c \in CacheIds :
            /\ ~h.ncache[c].allocated
            /\ \A c2 \in CacheIds : c2 < c => h.ncache[c2].allocated
    ELSE Null

FreshDataset(h) ==
    IF \E d \in DatasetIds : ~h.ndataset[d].allocated
    THEN CHOOSE d \in DatasetIds :
            /\ ~h.ndataset[d].allocated
            /\ \A d2 \in DatasetIds : d2 < d => h.ndataset[d2].allocated
    ELSE Null

FreshVM(h) ==
    IF \E v \in VmIds : h.vms[v].st = "unborn"
    THEN CHOOSE v \in VmIds :
            /\ h.vms[v].st = "unborn"
            /\ \A v2 \in VmIds : v2 < v => h.vms[v2].st # "unborn"
    ELSE Null

\* p is the pointer the allocator returns: a fresh handle, or Null
randomx_alloc_cache(h, flags, p) ==
    Log(IF p # Null THEN [h EXCEPT !.ncache[p].allocated = TRUE] ELSE h,
        "alloc_cache", Null, p, Null, <<flags>>)

randomx_init_cache(h, p, key) ==
    Log(IF p # Null THEN [h EXCEPT !.ncache[p].key = key] ELSE h,
        "init_cache", Null, p, Null, key)

randomx_release_cache(h, p) ==
    Log(IF p # Null THEN [h EXCEPT !.ncache[p].released = @ + 1] ELSE h,
        "release_cache", Null, p, Null, <<>>)

randomx_dataset_item_count == NumItems

randomx_alloc_dataset(h, flags, p) ==
    Log(IF p # Null THEN [h EXCEPT !.ndataset[p].allocated = TRUE] ELSE h,
        "alloc_dataset", Null, Null, p, <<flags>>)

\* item i lies in [start, start + item_count)
InRange(i, start, item_count) ==
    /\ U32Le(start, U32(i))
    /\ ~WideLe(WideAdd(start, item_count), U32(i))

\* expands the cache's key into the items of the range that exist
randomx_init_dataset(h, p, cache_ptr, start, item_count) ==
    Log(IF p # Null
        THEN [h EXCEPT !.ndataset[p].items =
                [i \in 0..(NumItems - 1) |->
                    IF InRange(i, start, item_count)
                    THEN (IF cache_ptr # Null THEN h.ncache[cache_ptr].key ELSE <<>>)
                    ELSE @[i]]]
        ELSE h,
        "init_dataset", Null, cache_ptr, p, <<start, item_count>>)

randomx_release_dataset(h, p) ==
    Log(IF p # Null THEN [h EXCEPT !.ndataset[p].released = @ + 1] ELSE h,
        "release_dataset", Null, Null, p, <<>>)

randomx_create_vm(h, flags, cache_ptr, dataset_ptr, p) ==
    Log(IF p # Null
        THEN [h EXCEPT !.nvm[p] = [created |-> TRUE, flags |-> flags, cache |-> cache_ptr,
                                   dataset |-> dataset_ptr, inflight |-> <<>>,
                                   destroyed |-> 0]]
        ELSE h,
        "create_vm", p, cache_ptr, dataset_ptr, <<flags>>)

randomx_destroy_vm(h, p) ==
    Log(IF p # Null THEN [h EXCEPT !.nvm[p].destroyed = @ + 1] ELSE h,
        "destroy_vm", p, Null, Null, <<>>)

randomx_vm_set_cache(h, p, cache_ptr) ==
    Log(IF p # Null THEN [h EXCEPT !.nvm[p].cache = cache_ptr] ELSE h,
        "vm_set_cache", p, cache_ptr, Null, <<>>)

randomx_vm_set_dataset(h, p, dataset_ptr) ==
    Log(IF p # Null THEN [h EXCEPT !.nvm[p].dataset = dataset_ptr] ELSE h,
        "vm_set_dataset", p, Null, dataset_ptr, <<>>)

(* Digests.  The 32-byte output buffer is one value; ZeroDigest is the     *)
(* all-zero buffer, and the digest of a key and an input is never zero.    *)

ZeroDigest == 0
Garbage == <<0>>
Code(x) == IF x = <<>> THEN 0 ELSE x[1]
Digest(key, input) == 16 * Code(key) + Code(input) + 64 * (Len(input) - 1) + 1

\* the key the dataset was expanded from, when every item was
DatasetKey(h, p) ==
    LET items == h.ndataset[p].items
    IN  IF \A i \in 0..(NumItems - 1) : items[i] = items[0] /\ items[i] # <<>>
        THEN items[0]
        ELSE Garbage

\* the key a native VM hashes with: its dataset's in full-memory mode, its
\* cache's otherwise
HashKey(h, p) ==
    IF p = Null \/ ~h.nvm[p].created THEN Garbage
    ELSE IF contains(h.nvm[p].flags, FLAG_FULL_MEM)
    THEN (IF h.nvm[p].dataset = Null THEN Garbage ELSE DatasetKey(h, h.nvm[p].dataset))
    ELSE (IF h.nvm[p].cache = Null THEN Garbage ELSE h.ncache[h.nvm[p].cache].key)

\* what an engine call leaves in the output buffer: the digest, an all-zero
\* digest, or what the buffer held (the engine failed and wrote nothing)
Outcomes == {"ok", "zero", "nowrite"}

Written(outcome, digest, old) ==
    CASE outcome = "ok" -> digest
      [] outcome = "zero" -> ZeroDigest
      [] OTHER -> old

randomx_calculate_hash(h, p, input) ==
    Log(h, "calculate_hash", p, Null, Null, input)

randomx_calculate_hash_first(h, p, input) ==
    Log(IF p # Null THEN [h EXCEPT !.nvm[p].inflight = <<input>>] ELSE h,
        "calculate_hash_first", p, Null, Null, input)

randomx_calculate_hash_next(h, p, input) ==
    Log(IF p # Null THEN [h EXCEPT !.nvm[p].inflight = <<input>>] ELSE h,
        "calculate_hash_next", p, Null, Null, input)

randomx_calculate_hash_last(h, p) ==
    Log(IF p # Null THEN [h EXCEPT !.nvm[p].inflight = <<>>] ELSE h,
        "calculate_hash_last", p, Null, Null, <<>>)

\* the digest hash_next and hash_last retrieve: that of the input in flight
InflightDigest(h, p) ==
    IF p = Null \/ h.nvm[p].inflight = <<>>
    THEN Digest(Garbage, Garbage)
    ELSE Digest(HashKey(h, p), h.nvm[p].inflight[1])

-----------------------------------------------------------------------------
(* RandomXCache *)

\* Drop for RandomXCacheInner: the lock is taken and a non-null handle released
\* Drop that releases the handle whatever the state of the lock
DropCacheInner_IgnoresPoison(h, c) ==
    LET ptr == h.caches[c].cache_ptr
        h1 == IF ptr # Null THEN randomx_release_cache(h, ptr) ELSE h
    IN  [h1 EXCEPT !.caches[c] = [NoCache EXCEPT !.st = "dropped"]]

\* if let Ok(ptr) = self.cache_ptr.lock(): a poisoned lock skips the release
DropCacheInner(h, c) ==
    LET ptr == h.caches[c].cache_ptr
        h1 == IF ~h.caches[c].poisoned /\ ptr # Null THEN randomx_release_cache(h, ptr) ELSE h
    IN  [h1 EXCEPT !.caches[c] = [NoCache EXCEPT !.st = "dropped"]]

\* one RandomXCache handle goes out of scope: Arc's strong count falls, and
\* the inner is dropped with the last one
ArcDropCache(h, c) ==
    LET h1 == [h EXCEPT !.caches[c].strong = @ - 1]
    IN  IF h1.caches[c].strong = 0 THEN DropCacheInner(h1, c) ELSE h1

\* an Option<RandomXCache> goes out of scope
DropOptCache(h, c) == IF c = Null THEN h ELSE ArcDropCache(h, c)

\* a clone that copies the pointer without counting the new holder
ArcCloneCache_Uncounted(h, c) == h

\* #[derive(Clone)] on RandomXCache: Arc::clone
ArcCloneCache(h, c) == [h EXCEPT !.caches[c].strong = @ + 1]

\* init that hands every key to the engine, the empty one too
RandomXCache_init_Unchecked(h, c, key) ==
    LET cache_ptr == h.caches[c].cache_ptr
    IN  Return(randomx_init_cache(h, cache_ptr, key), "Cache::init", c, "Ok", <<>>)

\* init that expands a key only into a cache that holds none yet
RandomXCache_init_Once(h, c, key) ==
    IF key = <<>>
    THEN Return(h, "Cache::init", c, "ParameterError", <<>>)
    ELSE LET cache_ptr == h.caches[c].cache_ptr
         IN  IF h.ncache[cache_ptr].key # <<>>
             THEN Return(h, "Cache::init", c, "Ok", <<>>)
             ELSE Return(randomx_init_cache(h, cache_ptr, key), "Cache::init", c, "Ok", <<>>)

RandomXCache_init(h, c, key) ==
    IF key = <<>>
    THEN Return(h, "Cache::init", c, "ParameterError", <<>>)
    ELSE IF h.caches[c].poisoned
    THEN Return(h, "Cache::init", c, "panic", <<>>)
    ELSE LET cache_ptr == h.caches[c].cache_ptr
         IN  Return(randomx_init_cache(h, cache_ptr, key), "Cache::init", c, "Ok", <<>>)

\* new that allocates before it looks at the key
RandomXCache_new_AllocFirst(h, flags, key, cache_ptr) ==
    LET h1 == randomx_alloc_cache(h, flags, cache_ptr)
    IN  IF key = <<>>
        THEN Return(h1, "Cache::new", Null, "ParameterError", <<>>)
        ELSE IF cache_ptr = Null
        THEN Return(h1, "Cache::new", Null, "CreationError", <<>>)
        ELSE LET c == cache_ptr
                 h2 == [h1 EXCEPT !.caches[c] =
                          [st |-> "live", strong |-> 1, cache_ptr |-> cache_ptr,
                                poisoned |-> FALSE]]
             IN  Return(RandomXCache_init(h2, c, key), "Cache::new", c, "Ok", <<>>)

\* cache_ptr is what randomx_alloc_cache returns
RandomXCache_new(h, flags, key, cache_ptr) ==
    IF key = <<>>
    THEN Return(h, "Cache::new", Null, "ParameterError", <<>>)
    ELSE LET h1 == randomx_alloc_cache(h, flags, cache_ptr)
         IN  IF cache_ptr = Null
             THEN Return(h1, "Cache::new", Null, "CreationError", <<>>)
             ELSE LET c == cache_ptr
                      h2 == [h1 EXCEPT !.caches[c] =
                               [st |-> "live", strong |-> 1, cache_ptr |-> cache_ptr,
                                poisoned |-> FALSE]]
                      h3 == RandomXCache_init(h2, c, key)
                  IN  IF h3.ret.res # "Ok"
                      THEN Return(ArcDropCache(h3, c), "Cache::new", Null, h3.ret.res, <<>>)
                      ELSE Return(h3, "Cache::new", c, "Ok", <<>>)

-----------------------------------------------------------------------------
(* RandomXDataset *)

\* Drop for RandomXDatasetInner, then the drop of its cache field
DropDatasetInner(h, d) ==
    LET ptr == h.datasets[d].dataset_ptr
        c == h.datasets[d].cache
        h1 == IF ptr # Null THEN randomx_release_dataset(h, ptr) ELSE h
        h2 == [h1 EXCEPT !.datasets[d] = [NoDataset EXCEPT !.st = "dropped"]]
    IN  DropOptCache(h2, c)

\* a drop of a handle that drops the shared inner value every time
ArcDropDataset_Always(h, d) ==
    LET h1 == [h EXCEPT !.datasets[d].strong = @ - 1]
    IN  IF h1.datasets[d].st = "live" THEN DropDatasetInner(h1, d) ELSE h1

ArcDropDataset(h, d) ==
    LET h1 == [h EXCEPT !.datasets[d].strong = @ - 1]
    IN  IF h1.datasets[d].strong = 0 THEN DropDatasetInner(h1, d) ELSE h1

DropOptDataset(h, d) == IF d = Null THEN h ELSE ArcDropDataset(h, d)

ArcCloneDataset(h, d) == [h EXCEPT !.datasets[d].strong = @ + 1]

\* a c_ulong as <<carry, hi, lo>>: the carry is what does not fit a u32
Wide(n) == <<0>> \o U32(n)

\* what randomx_dataset_item_count returns in this model's engine
ItemCount == Wide(randomx_dataset_item_count)

\* what an engine can return: nothing, its item count, more than a u32 holds
EngineCounts == {Wide(0), ItemCount, <<1, 0, 0>>}

\* RandomXDataset::count: [res, val]; x is what randomx_dataset_item_count
\* returns
RandomXDataset_count(x) ==
    IF x = Wide(0)
    THEN [res |-> "Other", val |-> U32(0)]
    ELSE IF x[1] # 0
    THEN [res |-> "TryFromIntError", val |-> U32(0)]
    ELSE [res |-> "Ok", val |-> <<x[2], x[3]>>]

\* alloc that asks for the native dataset before it asks for the item count
RandomXDataset_alloc_AllocFirst(h, flags, c, dataset_ptr, x) ==
    LET h1 == randomx_alloc_dataset(h, flags, dataset_ptr)
    IN  IF RandomXDataset_count(x).res # "Ok" \/ dataset_ptr = Null
        THEN Return(ArcDropCache(h1, c), "Dataset::alloc", Null, "CreationError", <<>>)
        ELSE Return([h1 EXCEPT !.datasets[dataset_ptr] =
                       [st |-> "live", strong |-> 1, dataset_ptr |-> dataset_ptr,
                        dataset_count |-> RandomXDataset_count(x).val, cache |-> c]],
                    "Dataset::alloc", dataset_ptr, "Ok", <<>>)

\* c is the RandomXCache moved in; dataset_ptr is what randomx_alloc_dataset
\* returns; every error of count is mapped to CreationError
RandomXDataset_alloc(h, flags, c, dataset_ptr, x) ==
    IF RandomXDataset_count(x).res # "Ok"
    THEN Return(ArcDropCache(h, c), "Dataset::alloc", Null, "CreationError", <<>>)
    ELSE LET h1 == randomx_alloc_dataset(h, flags, dataset_ptr)
         IN  IF dataset_ptr = Null
             THEN Return(ArcDropCache(h1, c), "Dataset::alloc", Null, "CreationError", <<>>)
             ELSE Return([h1 EXCEPT !.datasets[dataset_ptr] =
                            [st |-> "live", strong |-> 1, dataset_ptr |-> dataset_ptr,
                             dataset_count |-> RandomXDataset_count(x).val, cache |-> c]],
                         "Dataset::alloc", dataset_ptr, "Ok", <<>>)

\* start + item_count is a u32 addition: on overflow it panics in a build
\* with overflow checks and wraps in one without.  The outcomes of a + b:
AddOutcomes(a, b) ==
    IF Overflows(a, b) THEN {"panic", WrappingAdd(a, b)} ELSE {WrappingAdd(a, b)}

\* sum is what start + item_count evaluated to
\* init that asks the engine for every item up to the end of the range
RandomXDataset_init_FromZero(h, d, start, item_count, sum) ==
    IF sum = "panic"
    THEN Return(h, "Dataset::init", d, "panic", <<>>)
    ELSE IF U32Le(sum, h.datasets[d].dataset_count)
    THEN LET cache_ptr == h.caches[h.datasets[d].cache].cache_ptr
         IN  Return(randomx_init_dataset(h, h.datasets[d].dataset_ptr, cache_ptr,
                                         U32(0), sum),
                    "Dataset::init", d, "Ok", <<>>)
    ELSE Return(h, "Dataset::init", d, "CreationError", <<>>)

RandomXDataset_init(h, d, start, item_count, sum) ==
    IF sum = "panic"
    THEN Return(h, "Dataset::init", d, "panic", <<>>)
    ELSE IF U32Le(sum, h.datasets[d].dataset_count)
    THEN IF h.caches[h.datasets[d].cache].poisoned
         THEN Return(h, "Dataset::init", d, "panic", <<>>)
         ELSE
         LET cache_ptr == h.caches[h.datasets[d].cache].cache_ptr
         IN  Return(randomx_init_dataset(h, h.datasets[d].dataset_ptr, cache_ptr,
                                         start, item_count),
                    "Dataset::init", d, "Ok", <<>>)
    ELSE Return(h, "Dataset::init", d, "CreationError", <<>>)

\* alloc on a clone of the cache, then init of the whole range from start;
\* an error drops the allocated dataset, and in every case the cache moved in
RandomXDataset_new(h, flags, c, start, dataset_ptr, sum, x) ==
    LET h1 == RandomXDataset_alloc(ArcCloneCache(h, c), flags, c, dataset_ptr, x)
    IN  IF h1.ret.res # "Ok"
        THEN Return(ArcDropCache(h1, c), "Dataset::new", Null, h1.ret.res, <<>>)
        ELSE LET d == h1.ret.obj
                 h2 == RandomXDataset_init(h1, d, start, h1.datasets[d].dataset_count, sum)
             IN  IF h2.ret.res # "Ok"
                 THEN Return(ArcDropCache(ArcDropDataset(h2, d), c),
                             "Dataset::new", Null, h2.ret.res, <<>>)
                 ELSE Return(ArcDropCache(h2, c), "Dataset::new", d, "Ok", <<>>)

-----------------------------------------------------------------------------
(* RandomXVM *)

\* VM::new without the arm that rejects a missing cache in light mode
RandomXVM_new_NoCacheArm(h, flags, c, d, vm, v) ==
    LET is_full_mem == contains(flags, FLAG_FULL_MEM)
    IN  IF c = Null /\ d = Null
        THEN Return(h, "VM::new", Null, "CreationError", <<>>)
        ELSE IF d = Null /\ is_full_mem
        THEN Return(DropOptCache(h, c), "VM::new", Null, "FlagConfigError", <<>>)
        ELSE LET cache_ptr == IF c # Null THEN h.caches[c].cache_ptr ELSE Null
                 dataset_ptr == IF d # Null THEN h.datasets[d].dataset_ptr ELSE Null
                 h1 == randomx_create_vm(h, flags, cache_ptr, dataset_ptr, vm)
             IN  Return([h1 EXCEPT !.vms[v] =
                           [st |-> "live", flags |-> flags, vm |-> vm,
                            linked_cache |-> c, linked_dataset |-> d]],
                        "VM::new", v, "Ok", <<>>)

\* c, d: the Option<RandomXCache> and Option<RandomXDataset> moved in (Null
\* for None); vm is what randomx_create_vm returns; v is where the value lives
\* VM::new that hands the engine no cache whenever it is given a dataset
RandomXVM_new_DatasetOnly(h, flags, c, d, vm, v) ==
    LET is_full_mem == contains(flags, FLAG_FULL_MEM)
    IN  IF c = Null /\ d = Null
        THEN Return(h, "VM::new", Null, "CreationError", <<>>)
        ELSE IF c = Null /\ ~is_full_mem
        THEN Return(DropOptDataset(h, d), "VM::new", Null, "FlagConfigError", <<>>)
        ELSE IF d = Null /\ is_full_mem
        THEN Return(DropOptCache(h, c), "VM::new", Null, "FlagConfigError", <<>>)
        ELSE LET cache_ptr == IF c # Null /\ d = Null THEN h.caches[c].cache_ptr ELSE Null
                 dataset_ptr == IF d # Null THEN h.datasets[d].dataset_ptr ELSE Null
                 h1 == randomx_create_vm(h, flags, cache_ptr, dataset_ptr, vm)
             IN  Return([h1 EXCEPT !.vms[v] =
                           [st |-> "live", flags |-> flags, vm |-> vm,
                            linked_cache |-> c, linked_dataset |-> d]],
                        "VM::new", v, "Ok", <<>>)

RandomXVM_new(h, flags, c, d, vm, v) ==
    LET is_full_mem == contains(flags, FLAG_FULL_MEM)
    IN  IF c = Null /\ d = Null
        THEN Return(h, "VM::new", Null, "CreationError", <<>>)
        ELSE IF c = Null /\ ~is_full_mem
        THEN Return(DropOptDataset(h, d), "VM::new", Null, "FlagConfigError", <<>>)
        ELSE IF d = Null /\ is_full_mem
        THEN Return(DropOptCache(h, c), "VM::new", Null, "FlagConfigError", <<>>)
        ELSE IF c # Null /\ h.caches[c].poisoned
        THEN Return(DropOptCache(DropOptDataset(h, d), c), "VM::new", Null, "panic", <<>>)
        ELSE LET cache_ptr == IF c # Null THEN h.caches[c].cache_ptr ELSE Null
                 dataset_ptr == IF d # Null THEN h.datasets[d].dataset_ptr ELSE Null
                 h1 == randomx_create_vm(h, flags, cache_ptr, dataset_ptr, vm)
             IN  Return([h1 EXCEPT !.vms[v] =
                           [st |-> "live", flags |-> flags, vm |-> vm,
                            linked_cache |-> c, linked_dataset |-> d]],
                        "VM::new", v, "Ok", <<>>)

\* Drop for RandomXVM, then the drop of its fields in declaration order
\* a drop that lets go of the linked cache and dataset before destroy_vm
DropVM_FieldsFirst(h, v) ==
    LET vm == h.vms[v].vm
        c == h.vms[v].linked_cache
        d == h.vms[v].linked_dataset
        h1 == DropOptDataset(DropOptCache(h, c), d)
        h2 == IF vm # Null THEN randomx_destroy_vm(h1, vm) ELSE h1
    IN  Return([h2 EXCEPT !.vms[v] = [NoVM EXCEPT !.st = "dropped"]],
               "drop(VM)", v, "Ok", <<>>)

DropVM(h, v) ==
    LET vm == h.vms[v].vm
        c == h.vms[v].linked_cache
        d == h.vms[v].linked_dataset
        h1 == IF vm # Null THEN randomx_destroy_vm(h, vm) ELSE h
        h2 == [h1 EXCEPT !.vms[v] = [NoVM EXCEPT !.st = "dropped"]]
    IN  Return(DropOptDataset(DropOptCache(h2, c), d), "drop(VM)", v, "Ok", <<>>)

\* reinit_cache that binds the new cache but keeps holding the old one
RandomXVM_reinit_cache_KeepsOld(h, v, c) ==
    IF contains(h.vms[v].flags, FLAG_FULL_MEM)
    THEN Return(ArcDropCache(h, c), "reinit_cache", v, "FlagConfigError", <<>>)
    ELSE LET cache_ptr == h.caches[c].cache_ptr
             h1 == randomx_vm_set_cache(h, h.vms[v].vm, cache_ptr)
         IN  Return(ArcDropCache(h1, c), "reinit_cache", v, "Ok", <<>>)

\* c is the RandomXCache moved in; the assignment drops the cache held before
\* reinit_cache that records the new cache without telling the engine
RandomXVM_reinit_cache_LinkOnly(h, v, c) ==
    IF contains(h.vms[v].flags, FLAG_FULL_MEM)
    THEN Return(ArcDropCache(h, c), "reinit_cache", v, "FlagConfigError", <<>>)
    ELSE LET old == h.vms[v].linked_cache
             h2 == [h EXCEPT !.vms[v].linked_cache = c]
         IN  Return(DropOptCache(h2, old), "reinit_cache", v, "Ok", <<>>)

RandomXVM_reinit_cache(h, v, c) ==
    IF contains(h.vms[v].flags, FLAG_FULL_MEM)
    THEN Return(ArcDropCache(h, c), "reinit_cache", v, "FlagConfigError", <<>>)
    ELSE IF h.caches[c].poisoned
    THEN Return(ArcDropCache(h, c), "reinit_cache", v, "panic", <<>>)
    ELSE LET cache_ptr == h.caches[c].cache_ptr
             h1 == randomx_vm_set_cache(h, h.vms[v].vm, cache_ptr)
             old == h1.vms[v].linked_cache
             h2 == [h1 EXCEPT !.vms[v].linked_cache = c]
         IN  Return(DropOptCache(h2, old), "reinit_cache", v, "Ok", <<>>)

\* reinit_dataset without the flag check
RandomXVM_reinit_dataset_Unchecked(h, v, d) ==
    LET h1 == randomx_vm_set_dataset(h, h.vms[v].vm, h.datasets[d].dataset_ptr)
        old == h1.vms[v].linked_dataset
        h2 == [h1 EXCEPT !.vms[v].linked_dataset = d]
    IN  Return(DropOptDataset(h2, old), "reinit_dataset", v, "Ok", <<>>)

RandomXVM_reinit_dataset(h, v, d) ==
    IF contains(h.vms[v].flags, FLAG_FULL_MEM)
    THEN LET h1 == randomx_vm_set_dataset(h, h.vms[v].vm, h.datasets[d].dataset_ptr)
             old == h1.vms[v].linked_dataset
             h2 == [h1 EXCEPT !.vms[v].linked_dataset = d]
         IN  Return(DropOptDataset(h2, old), "reinit_dataset", v, "Ok", <<>>)
    ELSE Return(ArcDropDataset(h, d), "reinit_dataset", v, "FlagConfigError", <<>>)

\* calculate_hash that returns the buffer without looking at it
RandomXVM_calculate_hash_Unchecked(h, v, input, outcome) ==
    IF input = <<>>
    THEN Return(h, "calculate_hash", v, "ParameterError", <<>>)
    ELSE LET vm == h.vms[v].vm
             h1 == randomx_calculate_hash(h, vm, input)
             arr == Written(outcome, Digest(HashKey(h, vm), input), ZeroDigest)
         IN  Return(h1, "calculate_hash", v, "Ok", <<arr>>)

\* outcome: what the engine call leaves in the zero-filled buffer arr
RandomXVM_calculate_hash(h, v, input, outcome) ==
    IF input = <<>>
    THEN Return(h, "calculate_hash", v, "ParameterError", <<>>)
    ELSE LET vm == h.vms[v].vm
             h1 == randomx_calculate_hash(h, vm, input)
             arr == Written(outcome, Digest(HashKey(h, vm), input), ZeroDigest)
         IN  IF arr = ZeroDigest
             THEN Return(h1, "calculate_hash", v, "Other", <<>>)
             ELSE Return(h1, "calculate_hash", v, "Ok", <<arr>>)

(* calculate_hash_set.  The loop state is [h, arr, output_ptr, result, res]; *)
(* i counts from 0 as in the code, input and outs are indexed from 1, and    *)
(* outs[i] is what the engine call of iteration i leaves in arr.             *)

\* the engine writes through output_ptr
WriteOut(st, outcome, digest) ==
    IF st.output_ptr = "arr" THEN Written(outcome, digest, st.arr) ELSE st.arr

\* a pipeline in which hash_next hands back the digest of the input it has
\* just been given
HashSetCall_Eager(st, vm, input, outs, i) ==
    IF i = Len(input)
    THEN [st EXCEPT !.h = randomx_calculate_hash_last(@, vm),
                    !.arr = WriteOut(st, outs[i], InflightDigest(st.h, vm))]
    ELSE IF i = 0
    THEN [st EXCEPT !.h = randomx_calculate_hash_first(@, vm, input[i + 1]),
                    !.output_ptr = "arr"]
    ELSE [st EXCEPT !.h = randomx_calculate_hash_next(@, vm, input[i + 1]),
                    !.arr = Written(outs[i],
                                    InflightDigest(randomx_calculate_hash_next(st.h, vm, input[i + 1]), vm),
                                    @),
                    !.output_ptr = "arr"]

\* the engine call of iteration i
HashSetCall(st, vm, input, outs, i) ==
    IF i = Len(input)
    THEN [st EXCEPT !.h = randomx_calculate_hash_last(@, vm),
                    !.arr = WriteOut(st, outs[i], InflightDigest(st.h, vm))]
    ELSE IF i = 0
    THEN [st EXCEPT !.h = randomx_calculate_hash_first(@, vm, input[i + 1]),
                    !.output_ptr = "arr"]
    ELSE [st EXCEPT !.h = randomx_calculate_hash_next(@, vm, input[i + 1]),
                    !.arr = Written(outs[i], InflightDigest(st.h, vm), @),
                    !.output_ptr = "arr"]

\* an empty input at iteration i stops the calculation
HashSetStop(st, vm) ==
    [st EXCEPT !.h = IF st.arr # ZeroDigest
                     THEN randomx_calculate_hash_last(@, vm)
                     ELSE @,
               !.res = "ParameterError"]

RECURSIVE HashSetLoop(_, _, _, _, _)
HashSetLoop(st, vm, input, outs, i) ==
    IF i = Len(input) + 1
    THEN [st EXCEPT !.res = "Ok"]
    ELSE IF i < Len(input) /\ input[i + 1] = <<>>
    THEN HashSetStop(st, vm)
    ELSE LET st1 == HashSetCall(st, vm, input, outs, i)
         IN  IF i = 0
             THEN HashSetLoop(st1, vm, input, outs, i + 1)
             ELSE IF st1.arr = ZeroDigest
             THEN [st1 EXCEPT !.res = "Other"]
             ELSE HashSetLoop([st1 EXCEPT !.result = Append(@, st1.arr)],
                              vm, input, outs, i + 1)

RandomXVM_calculate_hash_set(h, v, input, outs) ==
    IF input = <<>>
    THEN Return(h, "calculate_hash_set", v, "ParameterError", <<>>)
    ELSE IF Len(input) = 1
    THEN LET h1 == RandomXVM_calculate_hash(h, v, input[1], outs[1])
         IN  Return(h1, "calculate_hash_set", v, h1.ret.res, h1.ret.val)
    ELSE LET st == HashSetLoop([h |-> h, arr |-> ZeroDigest, output_ptr |-> Null,
                                result |-> <<>>, res |-> "run"],
                               h.vms[v].vm, input, outs, 0)
         IN  Return(st.h, "calculate_hash_set", v, st.res,
                    IF st.res = "Ok" THEN st.result ELSE <<>>)

-----------------------------------------------------------------------------
(* The caller: one action per public operation.  A handle passed by value  *)
(* leaves the caller (Give); a handle returned joins the caller's (Take).  *)

GiveCache(h, c) == IF c = Null THEN h ELSE [h EXCEPT !.ext_cache[c] = @ - 1]
GiveDataset(h, d) == IF d = Null THEN h ELSE [h EXCEPT !.ext_dataset[d] = @ - 1]

TakeCache(h) ==
    IF h.ret.res = "Ok" THEN [h EXCEPT !.ext_cache[h.ret.obj] = @ + 1] ELSE h
TakeDataset(h) ==
    IF h.ret.res = "Ok" THEN [h EXCEPT !.ext_dataset[h.ret.obj] = @ + 1] ELSE h

\* the objects created so far
Allocated ==
    Cardinality({c \in CacheIds : caches[c].st # "unborn"})
    + Cardinality({d \in DatasetIds : datasets[d].st # "unborn"})
    + Cardinality({v \in VmIds : vms[v].st # "unborn"})

HeldCaches == {c \in CacheIds : ext_cache[c] > 0}
HeldDatasets == {d \in DatasetIds : ext_dataset[d] > 0}
LiveVMs == {v \in VmIds : vms[v].st = "live"}

NewCache(flagset, keys) ==
    \E flags \in flagset, key \in keys, ok \in BOOLEAN :
        /\ FreshCache(Heap) # Null
        /\ Allocated < MaxObjects
        /\ Commit(WithArgs(TakeCache(RandomXCache_new(Begin, flags, key,
                                    IF ok THEN FreshCache(Heap) ELSE Null)),
                         <<flags, key>>))

CloneCache ==
    \E c \in HeldCaches :
        /\ ext_cache[c] < MaxClones
        /\ Commit(TakeCache(Return(ArcCloneCache(Begin, c), "Cache::clone", c, "Ok", <<>>)))

DropCache ==
    \E c \in HeldCaches :
        Commit(Return(ArcDropCache(GiveCache(Begin, c), c), "drop(Cache)", c, "Ok", <<>>))

CacheInit(keys) ==
    \E c \in HeldCaches, key \in keys :
        Commit(WithArgs(RandomXCache_init(Begin, c, key), <<key>>))

NewDataset(flagset, starts, counts) ==
    \E flags \in flagset, c \in HeldCaches, start \in starts, x \in counts,
       ok \in BOOLEAN :
        \E sum \in AddOutcomes(start, RandomXDataset_count(x).val) :
            /\ FreshDataset(Heap) # Null
            /\ Allocated < MaxObjects
            /\ Commit(WithArgs(TakeDataset(RandomXDataset_new(GiveCache(Begin, c), flags, c,
                                        start, IF ok THEN FreshDataset(Heap) ELSE Null,
                                        sum, x)),
                               <<flags, c, start, x>>))

AllocDataset(flagset, counts) ==
    \E flags \in flagset, c \in HeldCaches, x \in counts, ok \in BOOLEAN :
        /\ FreshDataset(Heap) # Null
        /\ Allocated < MaxObjects
        /\ Commit(WithArgs(TakeDataset(RandomXDataset_alloc(GiveCache(Begin, c), flags, c,
                                    IF ok THEN FreshDataset(Heap) ELSE Null, x)),
                           <<flags, c, x>>))

CloneDataset ==
    \E d \in HeldDatasets :
        /\ ext_dataset[d] < MaxClones
        /\ Commit(TakeDataset(Return(ArcCloneDataset(Begin, d), "Dataset::clone", d, "Ok", <<>>)))

DropDataset ==
    \E d \in HeldDatasets :
        Commit(Return(ArcDropDataset(GiveDataset(Begin, d), d), "drop(Dataset)", d, "Ok", <<>>))

DatasetInit(ranges) ==
    \E d \in HeldDatasets, r \in ranges :
        \E sum \in AddOutcomes(r[1], r[2]) :
            Commit(WithArgs(RandomXDataset_init(Begin, d, r[1], r[2], sum), r))

NewVM(flagset) ==
    \E flags \in flagset, c \in HeldCaches \cup {Null}, d \in HeldDatasets \cup {Null},
       ok \in BOOLEAN :
        /\ FreshVM(Heap) # Null
        /\ Allocated < MaxObjects
        /\ Commit(WithArgs(RandomXVM_new(GiveDataset(GiveCache(Begin, c), d), flags, c, d,
                                         IF ok THEN FreshVM(Heap) ELSE Null, FreshVM(Heap)),
                           <<flags, c, d>>))

ReinitCache ==
    \E v \in LiveVMs, c \in HeldCaches :
        Commit(WithArgs(RandomXVM_reinit_cache(GiveCache(Begin, c), v, c), <<c>>))

ReinitDataset ==
    \E v \in LiveVMs, d \in HeldDatasets :
        Commit(WithArgs(RandomXVM_reinit_dataset(GiveDataset(Begin, d), v, d), <<d>>))

CalculateHash(inputs, outcomes) ==
    \E v \in LiveVMs, input \in inputs, outcome \in outcomes :
        Commit(WithArgs(RandomXVM_calculate_hash(Begin, v, input, outcome),
                        <<input, outcome>>))

\* the lists of at most MaxInputs inputs
InputLists == UNION {[1..n -> Bytes] : n \in 0..MaxInputs}

\* the engine call of iteration i (the one that writes outs[i]) is made: no
\* input before it stopped the loop and no earlier step left arr all-zero
Reached(input, outs, i) ==
    /\ \A j \in 1..i : j <= Len(input) => input[j] # <<>>
    /\ i < Len(input) => input[i + 1] # <<>>
    /\ \A j \in 1..(i - 1) : outs[j] # "zero" /\ (j = 1 => outs[j] = "ok")

\* an outcome for every engine call that writes; "ok" stands at the calls
\* that are not made
CalculateHashSet ==
    \E v \in LiveVMs, input \in InputLists :
        \E outs \in {o \in [1..Len(input) -> Outcomes] :
                        \A i \in 1..Len(input) : o[i] # "ok" => Reached(input, o, i)} :
            Commit(WithArgs(RandomXVM_calculate_hash_set(Begin, v, input, outs),
                            <<input, outs>>))

DropVMAction ==
    \E v \in LiveVMs : Commit(DropVM(Begin, v))

-----------------------------------------------------------------------------
(* Spec: the life cycle of caches, datasets and VMs from the empty heap.   *)
(* Every operation that creates, shares, rebinds or drops an object, over  *)
(* one key value and the dataset ranges around its item count.             *)

LifeFlags == {FLAG_DEFAULT}
LifeKeys == {<<>>, <<1>>}
LifeStarts == {U32(0), U32(1)}
LifeRanges == {<<U32(0), U32(NumItems)>>, <<U32(1), U32(NumItems)>>}
VmFlags == {FLAG_DEFAULT, FLAG_FULL_MEM, FLAG_JIT + FLAG_FULL_MEM}

Init ==
    /\ Install(EmptyHeap)
    /\ threads = <<>>
    /\ lock_owner = Null

Next ==
    \/ NewCache(LifeFlags, LifeKeys)
    \/ CloneCache
    \/ DropCache
    \/ CacheInit(LifeKeys)
    \/ NewDataset(LifeFlags, LifeStarts, {ItemCount})
    \/ AllocDataset(LifeFlags, {ItemCount})
    \/ CloneDataset
    \/ DropDataset
    \/ DatasetInit(LifeRanges)
    \/ NewVM(VmFlags)
    \/ ReinitCache
    \/ ReinitDataset
    \/ CalculateHash({<<1>>}, {"ok"})
    \/ DropVMAction

Spec == Init /\ [][Next]_vars

-----------------------------------------------------------------------------
(* Properties of the life cycle (Spec) *)

\* how often the engine function fn occurs in a call log
CountIn(log, fn) == Cardinality({i \in DOMAIN log : log[i].fn = fn})

(* C1: RandomXVM::new follows the validation matrix: no cache and no       *)
(* dataset gives CreationError; a dataset without a cache in light mode    *)
(* and a cache without a dataset in full-memory mode give FlagConfigError; *)
(* none of these calls create_vm.  Every other combination calls create_vm *)
(* exactly once, with the native handle of each supplied resource and null *)
(* for an absent one, and returns a VM holding what was supplied.          *)
C1_ValidationMatrix ==
    ret.op = "VM::new" =>
        LET flags == ret.args[1]
            c == ret.args[2]
            d == ret.args[3]
            full == contains(flags, FLAG_FULL_MEM)
        IN  IF c = Null /\ d = Null
            THEN ret.res = "CreationError" /\ CountIn(calls, "create_vm") = 0
            ELSE IF (c = Null /\ ~full) \/ (d = Null /\ full)
            THEN ret.res = "FlagConfigError" /\ CountIn(calls, "create_vm") = 0
            ELSE /\ ret.res = "Ok"
                 /\ CountIn(calls, "create_vm") = 1
                 /\ \E i \in DOMAIN calls :
                        /\ calls[i].fn = "create_vm"
                        /\ calls[i].data = <<flags>>
                        /\ calls[i].cache = (IF c = Null THEN Null ELSE caches[c].cache_ptr)
                        /\ calls[i].dataset =
                               (IF d = Null THEN Null ELSE datasets[d].dataset_ptr)
                        /\ c # Null => calls[i].cache # Null
                        /\ d # Null => calls[i].dataset # Null
                 /\ vms[ret.obj].st = "live"
                 /\ vms[ret.obj].flags = flags
                 /\ vms[ret.obj].linked_cache = c
                 /\ vms[ret.obj].linked_dataset = d

\* a VM was built over a dataset alone, in full-memory mode
C1_Witness ==
    /\ ret.op = "VM::new"
    /\ ret.res = "Ok"
    /\ ret.args[2] = Null
    /\ ret.args[3] # Null
    /\ CountIn(calls, "create_vm") = 1

(* C3: the native cache and the native dataset bound into a live VM (by    *)
(* create_vm, vm_set_cache or vm_set_dataset) have not been released,      *)
(* whatever the caller has cloned, rebound or dropped.                     *)
C3_BoundHandlesNotReleased ==
    \A v \in VmIds :
        (vms[v].st = "live" /\ vms[v].vm # Null) =>
            LET n == nvm[vms[v].vm]
            IN  /\ n.destroyed = 0
                /\ n.cache # Null => ncache[n.cache].released = 0
                /\ n.dataset # Null => ndataset[n.dataset].released = 0

\* a VM hashes over a cache and a dataset of which the caller holds nothing
C3_Witness ==
    /\ ret.op = "calculate_hash"
    /\ ret.res = "Ok"
    /\ vms[ret.obj].vm # Null
    /\ LET n == nvm[vms[ret.obj].vm]
       IN  /\ n.cache # Null
           /\ n.dataset # Null
           /\ ext_cache[n.cache] = 0
           /\ ext_dataset[n.dataset] = 0

\* the holders of a cache: the caller's handles, the datasets built from it
\* and the VMs holding it; of a dataset: the caller's handles and the VMs
CacheHolders(c) ==
    ext_cache[c]
    + Cardinality({d \in DatasetIds : datasets[d].st = "live" /\ datasets[d].cache = c})
    + Cardinality({v \in VmIds : vms[v].st = "live" /\ vms[v].linked_cache = c})

DatasetHolders(d) ==
    ext_dataset[d]
    + Cardinality({v \in VmIds : vms[v].st = "live" /\ vms[v].linked_dataset = d})

(* C4: a native cache is released exactly once, when the last of its       *)
(* holders is dropped, and a native dataset likewise: while a holder       *)
(* remains the handle is not released, and with none left it has been      *)
(* released once.  (A cache or dataset and its native handle share their   *)
(* number.)                                                                *)
C4_ReleasedOnceWithLastHolder ==
    /\ \A c \in CacheIds :
           ncache[c].allocated =>
               ncache[c].released = (IF CacheHolders(c) = 0 THEN 1 ELSE 0)
    /\ \A d \in DatasetIds :
           ndataset[d].allocated =>
               ndataset[d].released = (IF DatasetHolders(d) = 0 THEN 1 ELSE 0)

\* the drop of a VM released a cache and a dataset: it was their last holder
C4_Witness ==
    /\ ret.op = "drop(VM)"
    /\ CountIn(calls, "release_cache") = 1
    /\ CountIn(calls, "release_dataset") = 1

\* the step of a rebind: its result against the flags, no vm_set call and an
\* unchanged VM on failure, one vm_set call with the new handle and only the
\* one reference replaced on success; quiet asks for no engine call at all
\* on failure
C7_Rebind(quiet) ==
    /\ ret'.op = "reinit_cache" =>
           LET v == ret'.obj
               c == ret'.args[1]
               full == contains(vms[v].flags, FLAG_FULL_MEM)
           IN  /\ ret'.res = (IF full THEN "FlagConfigError" ELSE "Ok")
               /\ full => /\ vms' = vms
                          /\ nvm' = nvm
                          /\ CountIn(calls', "vm_set_cache") = 0
                          /\ CountIn(calls', "vm_set_dataset") = 0
                          /\ quiet => calls' = <<>>
               /\ ~full => /\ CountIn(calls', "vm_set_cache") = 1
                           /\ CountIn(calls', "vm_set_dataset") = 0
                           /\ calls'[1] = Call("vm_set_cache", vms[v].vm,
                                               caches[c].cache_ptr, Null, <<>>)
                           /\ vms' = [vms EXCEPT ![v].linked_cache = c]
                           /\ vms[v].vm # Null =>
                                  nvm' = [nvm EXCEPT ![vms[v].vm].cache =
                                                         caches[c].cache_ptr]
    /\ ret'.op = "reinit_dataset" =>
           LET v == ret'.obj
               d == ret'.args[1]
               full == contains(vms[v].flags, FLAG_FULL_MEM)
           IN  /\ ret'.res = (IF full THEN "Ok" ELSE "FlagConfigError")
               /\ ~full => /\ vms' = vms
                           /\ nvm' = nvm
                           /\ CountIn(calls', "vm_set_cache") = 0
                           /\ CountIn(calls', "vm_set_dataset") = 0
                           /\ quiet => calls' = <<>>
               /\ full => /\ CountIn(calls', "vm_set_dataset") = 1
                          /\ CountIn(calls', "vm_set_cache") = 0
                          /\ calls'[1] = Call("vm_set_dataset", vms[v].vm, Null,
                                              datasets[d].dataset_ptr, <<>>)
                          /\ vms' = [vms EXCEPT ![v].linked_dataset = d]
                          /\ vms[v].vm # Null =>
                                 nvm' = [nvm EXCEPT ![vms[v].vm].dataset =
                                                        datasets[d].dataset_ptr]
    /\ \A v \in VmIds :
           (vms[v].st = "live" /\ vms'[v].st = "live") => vms'[v].flags = vms[v].flags

(* C7, as stated: reinit_cache fails with FlagConfigError exactly when the *)
(* VM's flags contain FLAG_FULL_MEM and reinit_dataset exactly when they   *)
(* do not; on failure no engine call is made and the VM is unchanged; on   *)
(* success one vm_set call is made with the new handle and only the one    *)
(* held reference is replaced; the flags of a VM never change.             *)
C7_AsStated == [][C7_Rebind(TRUE)]_vars

(* C7, amended: on failure no vm_set_cache or vm_set_dataset call is made  *)
(* and the VM is unchanged; the rejected argument is dropped, which        *)
(* releases its native resource when it was the last handle.               *)
C7_Amended == [][C7_Rebind(FALSE)]_vars

\* a rebind to another cache released the cache the VM held before
C7_Witness ==
    /\ ret.op = "reinit_cache"
    /\ ret.res = "Ok"
    /\ CountIn(calls, "vm_set_cache") = 1
    /\ CountIn(calls, "release_cache") = 1

-----------------------------------------------------------------------------
(* SpecHash: hashing on one light-mode VM.  The initial heap is the one    *)
(* left by Cache::new(key 1), a clone, and VM::new over the clone; the     *)
(* caller hashes single inputs and lists of inputs, with every outcome of  *)
(* every engine call, and re-initialises the cache with another key in     *)
(* between.                                                                *)

HashHeap ==
    LET h1 == TakeCache(RandomXCache_new(EmptyHeap, FLAG_DEFAULT, <<1>>, 1))
        h2 == TakeCache(Return(ArcCloneCache(h1, 1), "Cache::clone", 1, "Ok", <<>>))
    IN  RandomXVM_new(GiveCache(h2, 1), FLAG_DEFAULT, 1, Null, 1, 1)

InitHash ==
    /\ Install(HashHeap)
    /\ threads = <<>>
    /\ lock_owner = Null

NextHash ==
    \/ CalculateHash(Bytes, Outcomes)
    \/ CalculateHashSet
    \/ CacheInit(NonEmptyBytes)

SpecHash == InitHash /\ [][NextHash]_vars

AllOk(outs) == \A i \in DOMAIN outs : outs[i] = "ok"
NoneEmpty(input) == \A i \in DOMAIN input : input[i] # <<>>

(* C2: for a non-empty list of non-empty inputs, with an engine that       *)
(* computes every digest, calculate_hash_set succeeds with as many digests *)
(* as inputs, and its i-th digest is the one calculate_hash returns for    *)
(* the i-th input on the same VM.                                          *)
C2_BatchEqualsSingle ==
    (/\ ret.op = "calculate_hash_set"
     /\ ret.args[1] # <<>>
     /\ NoneEmpty(ret.args[1])
     /\ AllOk(ret.args[2])) =>
        LET input == ret.args[1]
        IN  /\ ret.res = "Ok"
            /\ Len(ret.val) = Len(input)
            /\ \A i \in DOMAIN input :
                   LET single == RandomXVM_calculate_hash(Heap, ret.obj, input[i], "ok").ret
                   IN  single.res = "Ok" /\ ret.val[i] = single.val[1]

\* a list of three inputs, two of them different, was hashed
C2_Witness ==
    /\ ret.op = "calculate_hash_set"
    /\ ret.res = "Ok"
    /\ Len(ret.args[1]) = 3
    /\ ret.args[1][2] # ret.args[1][3]
    /\ AllOk(ret.args[2])

\* the index, from 0, of the first empty input of a list that has one
FirstEmpty(input) ==
    CHOOSE k \in 0..(Len(input) - 1) :
        input[k + 1] = <<>> /\ \A j \in 1..k : input[j] # <<>>

(* C8: calculate_hash_set over two or more inputs, the first empty one at  *)
(* index k, returns ParameterError with no digests; for k >= 1 the         *)
(* computation in flight is flushed by exactly one hash_last call before   *)
(* the error is returned, and for k = 0 no engine call is made.  (The      *)
(* engine computes every digest.)                                          *)
C8_EmptyInputFlushes ==
    (/\ ret.op = "calculate_hash_set"
     /\ Len(ret.args[1]) >= 2
     /\ ~NoneEmpty(ret.args[1])
     /\ AllOk(ret.args[2])) =>
        LET k == FirstEmpty(ret.args[1])
        IN  /\ ret.res = "ParameterError"
            /\ ret.val = <<>>
            /\ k = 0 => calls = <<>>
            /\ k >= 1 => /\ CountIn(calls, "calculate_hash_last") = 1
                         /\ calls[Len(calls)].fn = "calculate_hash_last"

\* the engine calls of a successful pipelined run over input
PipelineCalls(vm, input) ==
    [i \in 1..(Len(input) + 1) |->
        IF i = 1 THEN Call("calculate_hash_first", vm, Null, Null, input[1])
        ELSE IF i <= Len(input) THEN Call("calculate_hash_next", vm, Null, Null, input[i])
        ELSE Call("calculate_hash_last", vm, Null, Null, <<>>)]

(* C9: an empty list gives ParameterError with no engine call; a           *)
(* successful call over one input makes the one single-shot calculate_hash *)
(* call; a successful call over N >= 2 inputs makes hash_first(input 0),   *)
(* hash_next(input i) for i = 1..N-1 in order, then hash_last, and the     *)
(* digest at position i of the result is the digest of input i.            *)
C9_CallSequenceAndOrder ==
    ret.op = "calculate_hash_set" =>
        LET input == ret.args[1]
            vm == vms[ret.obj].vm
        IN  /\ input = <<>> => ret.res = "ParameterError" /\ calls = <<>>
            /\ (ret.res = "Ok" /\ Len(input) = 1) =>
                   calls = <<Call("calculate_hash", vm, Null, Null, input[1])>>
            /\ (ret.res = "Ok" /\ Len(input) >= 2) =>
                   calls = PipelineCalls(vm, input)
            /\ ret.res = "Ok" =>
                   /\ Len(ret.val) = Len(input)
                   /\ \A i \in DOMAIN input :
                          ret.val[i] = Digest(HashKey(Heap, vm), input[i])

\* the step of a single hash
C10_Hash ==
    ret'.op = "calculate_hash" =>
        LET input == ret'.args[1]
            vm == vms[ret'.obj].vm
            arr == Written(ret'.args[2], Digest(HashKey(Heap, vm), input), ZeroDigest)
        IN  /\ input = <<>> => ret'.res = "ParameterError" /\ calls' = <<>>
            /\ input # <<>> =>
                   /\ calls' = <<Call("calculate_hash", vm, Null, Null, input)>>
                   /\ arr = ZeroDigest => ret'.res = "Other" /\ ret'.val = <<>>
                   /\ arr # ZeroDigest => ret'.res = "Ok" /\ ret'.val = <<arr>>
            /\ ret'.res = "Ok" => ret'.val[1] # ZeroDigest
            /\ vms' = vms
            /\ nvm' = nvm
            /\ caches' = caches
            /\ ncache' = ncache

(* C10: calculate_hash returns ParameterError without an engine call for   *)
(* an empty input; otherwise it makes exactly one engine calculate_hash    *)
(* call into a zero-filled buffer, returns Other when the buffer is still  *)
(* all-zero afterwards and the buffer as the digest in every other case.   *)
(* It never returns an all-zero digest as a success and leaves the VM and  *)
(* its bindings as they were.                                              *)
C10_SingleHash == [][C10_Hash]_vars

\* the engine wrote nothing and the hash was reported as Other
C10_Witness ==
    /\ ret.op = "calculate_hash"
    /\ ret.args[1] # <<>>
    /\ ret.args[2] = "nowrite"
    /\ ret.res = "Other"
    /\ Len(calls) = 1

-----------------------------------------------------------------------------
(* SpecInit: Dataset::init over the whole width of u32.  The initial heap  *)
(* is the one left by Cache::new(key 1), a clone, and Dataset::alloc over  *)
(* the clone; the caller initialises ranges whose ends lie around 0, the   *)
(* item count and 2^32, and re-initialises the cache in between.           *)

InitHeap ==
    LET h1 == TakeCache(RandomXCache_new(EmptyHeap, FLAG_DEFAULT, <<1>>, 1))
        h2 == TakeCache(Return(ArcCloneCache(h1, 1), "Cache::clone", 1, "Ok", <<>>))
    IN  TakeDataset(RandomXDataset_alloc(GiveCache(h2, 1), FLAG_DEFAULT, 1, 1, ItemCount))

WideValues ==
    {U32(0), U32(1), U32(NumItems - 1), U32(NumItems), U32(NumItems + 1),
     <<Limb - 1, Limb - NumItems>>, <<Limb - 1, Limb - 1>>}

WideRanges == WideValues \X WideValues

InitInit ==
    /\ Install(InitHeap)
    /\ threads = <<>>
    /\ lock_owner = Null

NextInit ==
    \/ DatasetInit(WideRanges)
    \/ CacheInit(NonEmptyBytes)

SpecInit == InitInit /\ [][NextInit]_vars

(* C6: Dataset::init(start, item_count) on a dataset of T items returns    *)
(* CreationError without an engine call whenever the mathematical sum      *)
(* start + item_count is greater than T, and succeeds with exactly one     *)
(* init_dataset(start, item_count) call whenever the sum is at most T.     *)
C6_RangeChecked ==
    ret.op = "Dataset::init" =>
        LET d == ret.obj
            start == ret.args[1]
            item_count == ret.args[2]
        IN  IF WideLe(WideAdd(start, item_count), datasets[d].dataset_count)
            THEN /\ ret.res = "Ok"
                 /\ calls = <<Call("init_dataset", Null, caches[datasets[d].cache].cache_ptr,
                                   datasets[d].dataset_ptr, <<start, item_count>>)>>
            ELSE /\ ret.res = "CreationError"
                 /\ calls = <<>>

-----------------------------------------------------------------------------
(* SpecThreads: the operations that lock the cache's mutex, run by         *)
(* several threads on shared handles.  Each of them is the statement       *)
(*     let cache_ptr = *...cache_ptr.lock().unwrap();                      *)
(* followed by an unsafe block with the native call.  The MutexGuard that  *)
(* lock() returns is a temporary of the let statement and is dropped at    *)
(* its end, so a thread goes: lock, copy the pointer and unlock, enter the *)
(* native call, leave it.  The heap changes when the native call is left.  *)
(* A native call that overlapped a re-initialisation of the cache it reads *)
(* may have seen the old key, the new key or half-written memory.          *)

Threads == 1..NumThreads

Idle == [pc |-> "idle", op |-> "none", obj |-> Null, arg |-> <<>>, keys |-> {}]

\* the native cache handle thread t's operation is about
CachePtrOf(t) ==
    CASE threads[t].op = "Cache::init" -> caches[threads[t].obj].cache_ptr
      [] threads[t].op = "Dataset::init" ->
             caches[datasets[threads[t].obj].cache].cache_ptr
      [] threads[t].op = "reinit_cache" -> caches[threads[t].arg[1]].cache_ptr
      [] OTHER -> Null

InNative(t) == threads[t].pc = "native"

\* the threads inside randomx_init_cache on the handle p
Writers(p) ==
    {u \in Threads : InNative(u) /\ threads[u].op = "Cache::init" /\ CachePtrOf(u) = p}

\* Cache::init with a non-empty key, up to the lock
StartCacheInit ==
    \E t \in Threads, c \in HeldCaches, key \in NonEmptyBytes :
        /\ threads[t].pc = "idle"
        /\ threads' = [threads EXCEPT ![t] =
                          [Idle EXCEPT !.pc = "lock", !.op = "Cache::init",
                                       !.obj = c, !.arg = key]]
        /\ UNCHANGED <<caches, datasets, vms, ext_cache, ext_dataset, ncache,
                       ndataset, nvm, calls, ret, lock_owner>>

\* Dataset::init with a range inside the dataset, up to the lock
StartDatasetInit ==
    \E t \in Threads, d \in HeldDatasets :
        /\ threads[t].pc = "idle"
        /\ threads' = [threads EXCEPT ![t] =
                          [Idle EXCEPT !.pc = "lock", !.op = "Dataset::init",
                                       !.obj = d,
                                       !.arg = <<U32(0), datasets[d].dataset_count>>]]
        /\ UNCHANGED <<caches, datasets, vms, ext_cache, ext_dataset, ncache,
                       ndataset, nvm, calls, ret, lock_owner>>

\* reinit_cache(cache.clone()) on a light-mode VM, up to the lock; &mut self
\* keeps every other thread out of the VM
StartReinitCache ==
    \E t \in Threads, v \in LiveVMs, c \in HeldCaches :
        /\ threads[t].pc = "idle"
        /\ ~contains(vms[v].flags, FLAG_FULL_MEM)
        /\ \A u \in Threads : ~(threads[u].op = "reinit_cache" /\ threads[u].obj = v)
        /\ threads' = [threads EXCEPT ![t] =
                          [Idle EXCEPT !.pc = "lock", !.op = "reinit_cache",
                                       !.obj = v, !.arg = <<c>>]]
        /\ UNCHANGED <<caches, datasets, vms, ext_cache, ext_dataset, ncache,
                       ndataset, nvm, calls, ret, lock_owner>>

\* cache_ptr.lock().unwrap()
Lock ==
    \E t \in Threads :
        /\ threads[t].pc = "lock"
        /\ lock_owner = Null
        /\ lock_owner' = t
        /\ threads' = [threads EXCEPT ![t].pc = "locked"]
        /\ UNCHANGED <<caches, datasets, vms, ext_cache, ext_dataset, ncache,
                       ndataset, nvm, calls, ret>>

\* the pointer is copied out and the guard dropped: the end of the let
CopyPtrAndUnlock ==
    \E t \in Threads :
        /\ threads[t].pc = "locked"
        /\ lock_owner = t
        /\ lock_owner' = Null
        /\ threads' = [threads EXCEPT ![t].pc = "unlocked"]
        /\ UNCHANGED <<caches, datasets, vms, ext_cache, ext_dataset, ncache,
                       ndataset, nvm, calls, ret>>

\* the native call is entered
NativeBegin ==
    \E t \in Threads :
        LET p == CachePtrOf(t)
            writing == threads[t].op = "Cache::init"
            torn == UNION {{threads[u].arg, Garbage} : u \in Writers(p)}
            seen == (IF writing THEN {threads[t].arg} ELSE {ncache[p].key}) \cup torn
        IN  /\ threads[t].pc = "unlocked"
            /\ threads' =
                   [u \in Threads |->
                       IF u = t
                       THEN [threads[t] EXCEPT !.pc = "native", !.keys = seen]
                       ELSE IF writing /\ InNative(u) /\ CachePtrOf(u) = p
                       THEN [threads[u] EXCEPT !.keys = @ \cup {threads[t].arg, Garbage}]
                       ELSE threads[u]]
            /\ UNCHANGED <<caches, datasets, vms, ext_cache, ext_dataset, ncache,
                           ndataset, nvm, calls, ret, lock_owner>>

\* h with key as the content of the native cache p
WithKey(h, p, key) == [h EXCEPT !.ncache[p].key = key]

\* the native call is left and the operation returns
NativeEnd ==
    \E t \in Threads :
        \E key \in threads[t].keys :
            LET p == CachePtrOf(t)
                obj == threads[t].obj
                arg == threads[t].arg
            IN  /\ InNative(t)
                /\ threads' = [threads EXCEPT ![t] = Idle]
                /\ UNCHANGED lock_owner
                /\ CASE threads[t].op = "Cache::init" ->
                            CommitHeap(WithArgs(
                                WithKey(RandomXCache_init(Begin, obj, arg), p, key),
                                <<arg>>))
                     [] threads[t].op = "Dataset::init" ->
                            CommitHeap(WithArgs(
                                WithKey(RandomXDataset_init(WithKey(Begin, p, key), obj,
                                            arg[1], arg[2], WrappingAdd(arg[1], arg[2])),
                                        p, ncache[p].key),
                                arg))
                     [] threads[t].op = "reinit_cache" ->
                            CommitHeap(WithArgs(
                                RandomXVM_reinit_cache(ArcCloneCache(Begin, arg[1]),
                                                       obj, arg[1]),
                                arg))

ThreadsHeap ==
    LET h1 == TakeCache(Return(ArcCloneCache(InitHeap, 1), "Cache::clone", 1, "Ok", <<>>))
    IN  RandomXVM_new(GiveCache(h1, 1), FLAG_DEFAULT, 1, Null, 1, 1)

InitThreads ==
    /\ Install(ThreadsHeap)
    /\ threads = [t \in Threads |-> Idle]
    /\ lock_owner = Null

NextThreads ==
    \/ StartCacheInit
    \/ StartDatasetInit
    \/ StartReinitCache
    \/ Lock
    \/ CopyPtrAndUnlock
    \/ NativeBegin
    \/ NativeEnd

SpecThreads == InitThreads /\ [][NextThreads]_vars

(* C5: the native init_cache call of Cache::init never overlaps another    *)
(* init_cache on the same native cache handle, nor a native call of        *)
(* another thread that reads the handle (init_dataset, vm_set_cache).      *)
C5_InitCacheSerialized ==
    \A t \in Threads, u \in Threads :
        (/\ t # u
         /\ InNative(t)
         /\ threads[t].op = "Cache::init"
         /\ InNative(u)) => CachePtrOf(u) # CachePtrOf(t)

-----------------------------------------------------------------------------
(* Construction and re-initialisation of caches, checked under Spec. *)

(* C11: Cache::new returns ParameterError without an engine call for an    *)
(* empty key; returns CreationError after the one alloc_cache call, with   *)
(* no init_cache and no release_cache call, when alloc_cache returns null; *)
(* otherwise it calls alloc_cache and then init_cache once, with the key,  *)
(* on the handle alloc_cache returned, and the Cache holds that handle.    *)
(* Every live Cache holds a non-null handle with a key expanded into it.   *)
C11_CacheNew ==
    /\ ret.op = "Cache::new" =>
           LET flags == ret.args[1]
               key == ret.args[2]
           IN  IF key = <<>>
               THEN ret.res = "ParameterError" /\ calls = <<>>
               ELSE /\ Len(calls) >= 1
                    /\ calls[1].fn = "alloc_cache"
                    /\ calls[1].data = <<flags>>
                    /\ IF calls[1].cache = Null
                       THEN ret.res = "CreationError" /\ Len(calls) = 1
                       ELSE /\ ret.res = "Ok"
                            /\ Len(calls) = 2
                            /\ calls[2] = Call("init_cache", Null, calls[1].cache, Null, key)
                            /\ caches[ret.obj].cache_ptr = calls[1].cache
    /\ \A c \in CacheIds :
           caches[c].st = "live" =>
               /\ caches[c].cache_ptr # Null
               /\ ncache[caches[c].cache_ptr].allocated
               /\ ncache[caches[c].cache_ptr].key # <<>>

\* the allocator returned null for a non-empty key
C11_Witness ==
    /\ ret.op = "Cache::new"
    /\ ret.args[2] # <<>>
    /\ ret.res = "CreationError"
    /\ Len(calls) = 1

\* the step of a Cache::init, and the handle of every cache over any step
C12_Init ==
    /\ ret'.op = "Cache::init" =>
           LET c == ret'.obj
               key == ret'.args[1]
           IN  IF key = <<>>
               THEN /\ ret'.res = "ParameterError"
                    /\ calls' = <<>>
                    /\ ncache' = ncache
               ELSE /\ ret'.res = "Ok"
                    /\ calls' = <<Call("init_cache", Null, caches[c].cache_ptr, Null, key)>>
                    /\ caches' = caches
    /\ \A c \in CacheIds :
           (caches[c].st = "live" /\ caches'[c].st = "live") =>
               caches'[c].cache_ptr = caches[c].cache_ptr

(* C12: Cache::init with an empty key returns ParameterError, makes no     *)
(* engine call and leaves every native cache as it was; with any other key *)
(* it makes the one init_cache call on the handle the Cache holds.  The    *)
(* handle a live Cache holds is the same before and after every step.      *)
C12_CacheInit == [][C12_Init]_vars

\* an empty key was rejected on a cache that other handles share
C12_Witness ==
    /\ ret.op = "Cache::init"
    /\ ret.res = "ParameterError"
    /\ caches[ret.obj].strong >= 2
    /\ calls = <<>>

-----------------------------------------------------------------------------
(* SpecRekey: one cache shared by the caller, a dataset allocated over it  *)
(* and a light-mode VM bound to it.  The caller re-initialises the cache,  *)
(* hashes, and initialises ranges of the dataset, in any order.            *)

RekeyRanges == {<<U32(a), U32(b)>> : a \in 0..NumItems, b \in 0..NumItems}

InitRekey ==
    /\ Install(ThreadsHeap)
    /\ threads = <<>>
    /\ lock_owner = Null

NextRekey ==
    \/ CacheInit(Bytes)
    \/ CalculateHash(NonEmptyBytes, Outcomes)
    \/ DatasetInit(RekeyRanges)

SpecRekey == InitRekey /\ [][NextRekey]_vars

\* the key held by the native cache behind the Cache c
KeyOf(c) == ncache[caches[c].cache_ptr].key

\* one step: what a Cache::init leaves, and what the next hash and the next
\* Dataset::init read
C13_Observe ==
    /\ (ret'.op = "Cache::init" /\ ret'.res = "Ok") =>
           ncache'[caches[ret'.obj].cache_ptr].key = ret'.args[1]
    /\ ~(ret'.op = "Cache::init" /\ ret'.res = "Ok") =>
           \A p \in CacheIds : ncache'[p].key = ncache[p].key
    /\ (ret'.op = "calculate_hash" /\ ret'.args[2] = "ok") =>
           LET v == ret'.obj
           IN  (~contains(vms[v].flags, FLAG_FULL_MEM) /\ vms[v].linked_cache # Null) =>
                   /\ ret'.res = "Ok"
                   /\ ret'.val = <<Digest(KeyOf(vms[v].linked_cache), ret'.args[1])>>
    /\ (ret'.op = "Dataset::init" /\ ret'.res = "Ok") =>
           LET d == ret'.obj
           IN  \A i \in 0..(NumItems - 1) :
                   InRange(i, ret'.args[1], ret'.args[2]) =>
                       ndataset'[datasets[d].dataset_ptr].items[i] = KeyOf(datasets[d].cache)

(* C13: a successful Cache::init(key2) leaves key2 in the native cache and *)
(* no other operation rewrites it, so the holders of the Cache observe     *)
(* key2 on their next operation: calculate_hash(input) on a light-mode VM  *)
(* bound to the Cache returns the digest of (key2, input), and a           *)
(* Dataset::init over a range expands the items of the range from key2.    *)
C13_NewKeyObserved == [][C13_Observe]_vars

\* after a re-initialisation with another key the VM hashed with that key
C13_Witness ==
    /\ ret.op = "calculate_hash"
    /\ ret.res = "Ok"
    /\ KeyOf(vms[ret.obj].linked_cache) = <<2>>
    /\ ret.val = <<Digest(<<2>>, ret.args[1])>>

-----------------------------------------------------------------------------
(* SpecAlloc: the construction of datasets over one cache the caller       *)
(* holds twice, with every item count an engine can report, every result   *)
(* of the allocator, and start items around 0, the item count and 2^32.    *)

AllocHeap ==
    LET h1 == TakeCache(RandomXCache_new(EmptyHeap, FLAG_DEFAULT, <<1>>, 1))
    IN  TakeCache(Return(ArcCloneCache(h1, 1), "Cache::clone", 1, "Ok", <<>>))

InitAlloc ==
    /\ Install(AllocHeap)
    /\ threads = <<>>
    /\ lock_owner = Null

NextAlloc ==
    \/ AllocDataset(LifeFlags, EngineCounts)
    \/ NewDataset(LifeFlags, WideValues, EngineCounts)
    \/ DatasetInit(LifeRanges)
    \/ CacheInit(NonEmptyBytes)
    \/ DropCache
    \/ DropDataset

SpecAlloc == InitAlloc /\ [][NextAlloc]_vars

\* the engine calls made when the handle c, moved into an operation, is
\* dropped by it: the release of the native cache if c was the last handle
DropCalls(c) ==
    IF caches[c].strong = 1
    THEN <<Call("release_cache", Null, caches[c].cache_ptr, Null, <<>>)>>
    ELSE <<>>

\* the step of a Dataset::alloc.  strict: the conversion error keeps its
\* kind, and a failure makes no call on the cache's native handle
C14_Alloc(strict) ==
    /\ ret'.op = "Dataset::alloc" =>
           LET flags == ret'.args[1]
               c == ret'.args[2]
               x == ret'.args[3]
           IN  /\ CountIn(calls', "init_dataset") = 0
               /\ CountIn(calls', "init_cache") = 0
               /\ IF x = Wide(0) \/ x[1] # 0
                  THEN /\ ret'.res = IF strict /\ x[1] # 0
                                     THEN "TryFromIntError"
                                     ELSE "CreationError"
                       /\ calls' = IF strict THEN <<>> ELSE DropCalls(c)
                  ELSE /\ Len(calls') >= 1
                       /\ calls'[1].fn = "alloc_dataset"
                       /\ calls'[1].data = <<flags>>
                       /\ IF calls'[1].dataset = Null
                          THEN /\ ret'.res = "CreationError"
                               /\ SubSeq(calls', 2, Len(calls')) =
                                      IF strict THEN <<>> ELSE DropCalls(c)
                          ELSE /\ ret'.res = "Ok"
                               /\ Len(calls') = 1
                               /\ datasets'[ret'.obj] =
                                      [st |-> "live", strong |-> 1,
                                       dataset_ptr |-> calls'[1].dataset,
                                       dataset_count |-> <<x[2], x[3]>>, cache |-> c]
                               /\ caches'[c].strong = caches[c].strong
                               /\ \A i \in 0..(NumItems - 1) :
                                      ndataset'[calls'[1].dataset].items[i] = <<>>
    /\ \A d \in DatasetIds :
           (datasets[d].st = "live" /\ datasets'[d].st = "live") =>
               datasets'[d].dataset_count = datasets[d].dataset_count

C15_New ==
    ret'.op = "Dataset::new" =>
        LET c == ret'.args[2]
            start == ret'.args[3]
            count == RandomXDataset_count(ret'.args[4])
            allocated == /\ count.res = "Ok"
                         /\ calls' # <<>>
                         /\ calls'[1].fn = "alloc_dataset"
                         /\ calls'[1].dataset # Null
            in_range == WideLe(WideAdd(start, count.val), count.val)
        IN  /\ ret'.res = "Ok" <=> (allocated /\ in_range)
            /\ (allocated /\ ~in_range) =>
                   /\ ret'.res = "CreationError"
                   /\ CountIn(calls', "init_dataset") = 0
                   /\ CountIn(calls', "release_dataset") = 1
                   /\ ndataset'[calls'[1].dataset].released = 1
                   /\ IF caches[c].strong > 1
                      THEN caches'[c].strong = caches[c].strong - 1
                      ELSE caches'[c].st = "dropped"
            /\ (allocated /\ in_range) =>
                   /\ CountIn(calls', "init_dataset") = 1
                   /\ caches'[c].strong = caches[c].strong

(* C15: Dataset::new succeeds exactly when its alloc step succeeds and the *)
(* range from start over the whole item count lies inside the dataset,     *)
(* that is for start = 0 only.  When the init step fails the error is      *)
(* returned, the native dataset of the alloc step is released exactly      *)
(* once, and no reference to the cache is left behind: its count is the    *)
(* one before the call less the handle moved into the call.                *)
C15_NewIsAllocThenInit == [][C15_New]_vars

-----------------------------------------------------------------------------
(* SpecBuild: two independent sets of instances.  Cache 1 is built from    *)
(* key k1 and a dataset is built from it by Dataset::new(.., 0); cache 2   *)
(* is built from key k2.  VM 1 is a light-mode VM over cache 2; VM 2 is    *)
(* built over cache 1 and the dataset in one of the three ways.  The       *)
(* caller, who keeps a handle of each, hashes on both VMs and rebinds them *)
(* to either cache and to the dataset.                                     *)

Kinds == {"light", "full", "both"}

BuildHeap(k1, k2, kind) ==
    LET h1 == TakeCache(RandomXCache_new(EmptyHeap, FLAG_DEFAULT, k1, 1))
        h2 == TakeCache(RandomXCache_new(h1, FLAG_DEFAULT, k2, 2))
        h3 == TakeDataset(RandomXDataset_new(ArcCloneCache(h2, 1), FLAG_DEFAULT, 1, U32(0), 1,
                                             WrappingAdd(U32(0), U32(NumItems)), ItemCount))
        h4 == RandomXVM_new(ArcCloneCache(h3, 2), FLAG_DEFAULT, 2, Null, 1, 1)
        h5 == ArcCloneDataset(ArcCloneCache(h4, 1), 1)
    IN  CASE kind = "light" -> RandomXVM_new(h5, FLAG_DEFAULT, 1, 1, 2, 2)
          [] kind = "both" -> RandomXVM_new(h5, FLAG_FULL_MEM, 1, 1, 2, 2)
          [] kind = "full" -> RandomXVM_new(ArcDropCache(h5, 1), FLAG_FULL_MEM, Null, 1, 2, 2)

InitBuild ==
    /\ \E k1 \in NonEmptyBytes, k2 \in NonEmptyBytes, kind \in Kinds :
           Install(BuildHeap(k1, k2, kind))
    /\ threads = <<>>
    /\ lock_owner = Null

NextBuild ==
    \/ CalculateHash(NonEmptyBytes, Outcomes)
    \/ CloneCache
    \/ CloneDataset
    \/ ReinitCache
    \/ ReinitDataset

SpecBuild == InitBuild /\ [][NextBuild]_vars

\* the key the resources of VM v were built from: that of its dataset in
\* full-memory mode, that of its cache otherwise
BuiltKey(h, v) ==
    IF contains(h.vms[v].flags, FLAG_FULL_MEM)
    THEN DatasetKey(h, h.datasets[h.vms[v].linked_dataset].dataset_ptr)
    ELSE h.ncache[h.caches[h.vms[v].linked_cache].cache_ptr].key

\* the digest calculate_hash(input) returns on VM v of the heap h
HashOn(h, v, input) == RandomXVM_calculate_hash(h, v, input, "ok").ret

(* C16: hashing is a function of (key, input).  Two VMs whose resources    *)
(* were built from the same key return the same digest for the same input, *)
(* whichever instances they are built over and whether they are light,     *)
(* full-memory or built with both a cache and a dataset; and a hash that   *)
(* was made returned the digest of the key and the input, whatever was     *)
(* hashed before.                                                          *)
C16_Deterministic ==
    /\ \A v1 \in LiveVMs, v2 \in LiveVMs, input \in NonEmptyBytes :
           BuiltKey(Heap, v1) = BuiltKey(Heap, v2) =>
               /\ HashOn(Heap, v1, input).res = "Ok"
               /\ HashOn(Heap, v1, input) = [HashOn(Heap, v2, input) EXCEPT !.obj = v1]
    /\ (ret.op = "calculate_hash" /\ ret.res = "Ok") =>
           ret.val = <<Digest(BuiltKey(Heap, ret.obj), ret.args[1])>>

\* a light VM over one cache and a full-memory VM over a dataset built from
\* another cache of the same key, after a hash
C16_Witness ==
    /\ ret.op = "calculate_hash"
    /\ ret.res = "Ok"
    /\ ~contains(vms[1].flags, FLAG_FULL_MEM)
    /\ vms[1].linked_cache = 2
    /\ contains(vms[2].flags, FLAG_FULL_MEM)
    /\ vms[2].linked_cache = Null
    /\ BuiltKey(Heap, 1) = BuiltKey(Heap, 2)

\* the digest of input on a fresh VM constructed over the cache c (light
\* mode) or over the dataset d (full-memory mode), in a free slot x of h
FreshHash(h, flags, c, d, x, input) ==
    LET h0 == [h EXCEPT !.vms[x] = NoVM, !.nvm[x] = NoNVM]
    IN  HashOn(RandomXVM_new(h0, flags, c, d, x, x), x, input).val

OtherVm(v) == CHOOSE x \in VmIds : x # v

\* VM v hashes as a fresh VM over the resource it is bound to
LikeFresh(h, v) ==
    \A input \in NonEmptyBytes :
        HashOn(h, v, input).val =
            IF contains(h.vms[v].flags, FLAG_FULL_MEM)
            THEN FreshHash(h, FLAG_FULL_MEM, Null, h.vms[v].linked_dataset, OtherVm(v), input)
            ELSE FreshHash(h, FLAG_DEFAULT, h.vms[v].linked_cache, Null, OtherVm(v), input)

\* one step: the VMs after it, and what a rebinding changed
C17_Rebind ==
    /\ \A v \in VmIds : vms'[v].st = "live" => LikeFresh(Heap', v)
    /\ (ret'.op = "reinit_cache" /\ ret'.res = "Ok") =>
           LET v == ret'.obj
               c == ret'.args[1]
           IN  /\ vms'[v].linked_cache = c
               /\ \A input \in NonEmptyBytes :
                      /\ HashOn(Heap', v, input).val =
                             FreshHash(Heap', FLAG_DEFAULT, c, Null, OtherVm(v), input)
                      /\ (KeyOf(c) = BuiltKey(Heap, v)) <=>
                             (HashOn(Heap', v, input).val = HashOn(Heap, v, input).val)
    /\ (ret'.op = "reinit_dataset" /\ ret'.res = "Ok") =>
           LET v == ret'.obj
               d == ret'.args[1]
           IN  /\ vms'[v].linked_dataset = d
               /\ \A input \in NonEmptyBytes :
                      /\ HashOn(Heap', v, input).val =
                             FreshHash(Heap', FLAG_FULL_MEM, Null, d, OtherVm(v), input)
                      /\ (DatasetKey(Heap, datasets[d].dataset_ptr) = BuiltKey(Heap, v)) <=>
                             (HashOn(Heap', v, input).val = HashOn(Heap, v, input).val)

-----------------------------------------------------------------------------
(* SpecShare: the program of test_thread_safety_in_practice.  A cache and  *)
(* a dataset built from it by Dataset::new(.., 0) are cloned once for each *)
(* thread; the spawner keeps its own handles and may drop them at any      *)
(* time.  Thread t builds VM t over its clones (the cache mutex is taken   *)
(* to copy the native handle, then create_vm is called), hashes an input   *)
(* (a native call that other threads' steps overlap) and drops the VM:     *)
(* destroy_vm, then the linked cache, then the linked dataset.             *)

Started(flags) == [pc |-> "start", flags |-> flags, input |-> <<>>, seen |-> {}]

RECURSIVE CloneFor(_, _)
CloneFor(h, n) ==
    IF n = 0 THEN h ELSE CloneFor(ArcCloneDataset(ArcCloneCache(h, 1), 1), n - 1)

ShareHeap(key) ==
    LET h1 == TakeCache(RandomXCache_new(EmptyHeap, FLAG_DEFAULT, key, 1))
        h2 == TakeDataset(RandomXDataset_new(ArcCloneCache(h1, 1), FLAG_DEFAULT, 1, U32(0), 1,
                                             WrappingAdd(U32(0), U32(NumItems)), ItemCount))
    IN  CloneFor(h2, NumThreads)

ShareFlags == {FLAG_DEFAULT, FLAG_FULL_MEM}

\* every thread is spawned with a copy of the flags
InitShare ==
    /\ \E key \in NonEmptyBytes : Install(ShareHeap(key))
    /\ \E flags \in ShareFlags : threads = [t \in Threads |-> Started(flags)]
    /\ lock_owner = Null

\* thread t moves to pc, the heap becomes h
ShareStep(t, pc, h) ==
    /\ CommitHeap(h)
    /\ threads' = [threads EXCEPT ![t].pc = pc]

\* VM::new: cache_ptr.lock()
ShareLock ==
    \E t \in Threads :
        /\ threads[t].pc = "start"
        /\ lock_owner = Null
        /\ lock_owner' = t
        /\ ShareStep(t, "locked", Heap)

\* VM::new: the handle is copied and the guard is dropped
ShareUnlock ==
    \E t \in Threads :
        /\ threads[t].pc = "locked"
        /\ lock_owner = t
        /\ lock_owner' = Null
        /\ ShareStep(t, "copied", Heap)

\* VM::new: create_vm over the handles of the thread's clones
ShareCreate ==
    \E t \in Threads :
        /\ threads[t].pc = "copied"
        /\ ShareStep(t, "live", WithArgs(RandomXVM_new(Begin, threads[t].flags, 1, 1, t, t),
                                         <<threads[t].flags, 1, 1>>))
        /\ UNCHANGED lock_owner

\* calculate_hash enters the engine
ShareHashBegin ==
    \E t \in Threads, input \in NonEmptyBytes :
        /\ threads[t].pc = "live"
        /\ CommitHeap(Heap)
        /\ threads' = [threads EXCEPT ![t].pc = "native", ![t].input = input]
        /\ UNCHANGED lock_owner

\* calculate_hash returns
ShareHashEnd ==
    \E t \in Threads, outcome \in Outcomes :
        LET h == WithArgs(RandomXVM_calculate_hash(Begin, t, threads[t].input, outcome),
                          <<threads[t].input, outcome>>)
        IN  /\ threads[t].pc = "native"
            /\ CommitHeap(h)
            /\ threads' = [threads EXCEPT ![t].pc = "hashed",
                               ![t].seen = IF h.ret.res = "Ok"
                                           THEN @ \cup {<<threads[t].input, h.ret.val>>}
                                           ELSE @]
            /\ UNCHANGED lock_owner

\* drop(vm): Drop for RandomXVM
ShareDestroy ==
    \E t \in Threads :
        /\ threads[t].pc \in {"live", "hashed"}
        /\ ShareStep(t, "destroyed", randomx_destroy_vm(Begin, vms[t].vm))
        /\ UNCHANGED lock_owner

\* drop(vm): the field linked_cache
ShareDropLinkedCache ==
    \E t \in Threads :
        /\ threads[t].pc = "destroyed"
        /\ ShareStep(t, "unlinked",
                     [ArcDropCache(Begin, vms[t].linked_cache) EXCEPT !.vms[t].linked_cache = Null])
        /\ UNCHANGED lock_owner

\* drop(vm): the field linked_dataset
ShareDropLinkedDataset ==
    \E t \in Threads :
        /\ threads[t].pc = "unlinked"
        /\ ShareStep(t, "done",
                     Return([ArcDropDataset(Begin, vms[t].linked_dataset)
                                EXCEPT !.vms[t] = [NoVM EXCEPT !.st = "dropped"]],
                            "drop(VM)", t, "Ok", <<>>))
        /\ UNCHANGED lock_owner

NextShare ==
    \/ ShareLock
    \/ ShareUnlock
    \/ ShareCreate
    \/ ShareHashBegin
    \/ ShareHashEnd
    \/ ShareDestroy
    \/ ShareDropLinkedCache
    \/ ShareDropLinkedDataset
    \/ DropCache
    \/ DropDataset

SpecShare == InitShare /\ [][NextShare]_vars

\* thread t still owns the clones it was given
OwnsClones(t) == threads[t].pc \in {"start", "locked", "copied"}

\* the handles of the shared cache and of the shared dataset not yet dropped
SharedCacheHandles ==
    ext_cache[1]
    + Cardinality({t \in Threads : OwnsClones(t)})
    + Cardinality({v \in VmIds : vms[v].st = "live" /\ vms[v].linked_cache = 1})
    + (IF datasets[1].st = "live" THEN 1 ELSE 0)

SharedDatasetHandles ==
    ext_dataset[1]
    + Cardinality({t \in Threads : OwnsClones(t)})
    + Cardinality({v \in VmIds : vms[v].st = "live" /\ vms[v].linked_dataset = 1})

(* C18: VMs confined to their own threads and constructed over clones of   *)
(* one shared Cache and Dataset construct, hash and drop concurrently.     *)
(* Under every interleaving the digests the threads got for the same input *)
(* are the same, and the native cache and dataset are released only once   *)
(* every VM and every other clone has been dropped, and then exactly once. *)
C18_SharedAcrossThreads ==
    /\ \A t \in Threads, u \in Threads :
           \A p \in threads[t].seen, q \in threads[u].seen :
               p[1] = q[1] => p[2] = q[2]
    /\ ncache[1].released = (IF SharedCacheHandles = 0 THEN 1 ELSE 0)
    /\ ndataset[1].released = (IF SharedDatasetHandles = 0 THEN 1 ELSE 0)
    /\ \A t \in Threads : threads[t].pc \in {"live", "native", "hashed"} =>
           /\ nvm[vms[t].vm].destroyed = 0
           /\ ncache[1].released = 0
           /\ ndataset[1].released = 0

\* two threads got a digest for the same input, one of them after the
\* spawner and the other thread dropped everything they held
C18_Witness ==
    /\ \E t \in Threads, u \in Threads :
           /\ t # u
           /\ threads[t].pc = "done"
           /\ threads[u].pc = "hashed"
           /\ \E p \in threads[t].seen : p \in threads[u].seen
    /\ ret.op = "calculate_hash"
    /\ ret.res = "Ok"
    /\ ext_cache[1] = 0
    /\ ext_dataset[1] = 0

-----------------------------------------------------------------------------
(* SpecConfine: which threads a safe program can get a VM, a Cache or a    *)
(* Dataset to.  A type is the sequence of its wrappers followed by the     *)
(* name of a struct or primitive, <<"Arc", "Mutex", "RandomXVM">> for      *)
(* Arc<Mutex<RandomXVM>>.  Send and Sync are derived from the struct       *)
(* declarations and the unsafe impls of the crate, by the rules of the     *)
(* language for auto traits.  A value reaches another thread when it is    *)
(* moved or cloned into a spawned closure (its type must be Send) or       *)
(* borrowed by a scoped thread (the reference must be Send), bare or       *)
(* wrapped in Arc and Mutex.                                               *)

\* the fields of the structs of the crate
Fields(name) ==
    CASE name = "RandomXCacheInner" -> {<<"Mutex", "RawPtr">>}
      [] name = "RandomXCache" -> {<<"Arc", "RandomXCacheInner">>}
      [] name = "RandomXDatasetInner" -> {<<"RawPtr">>, <<"u32">>, <<"RandomXCache">>}
      [] name = "RandomXDataset" -> {<<"Arc", "RandomXDatasetInner">>}
      [] name = "RandomXVM" -> {<<"RandomXFlag">>, <<"RawPtr">>, <<"Option", "RandomXCache">>,
                                <<"Option", "RandomXDataset">>}
      [] name = "RandomXFlag" -> {<<"u32">>}

\* a crate that also declares the VM Send and Sync
UnsafeImpl_WithVM(trait) == {"RandomXCacheInner", "RandomXDatasetInner", "RandomXVM"}

\* the structs with an unsafe impl of the trait
UnsafeImpl(trait) ==
    CASE trait = "Send" -> {"RandomXCacheInner", "RandomXDatasetInner"}
      [] trait = "Sync" -> {"RandomXCacheInner", "RandomXDatasetInner"}

\* does the type ty implement the auto trait ("Send" or "Sync")
RECURSIVE Auto(_, _)
Auto(trait, ty) ==
    CASE ty[1] = "RawPtr" -> FALSE
      [] ty[1] = "u32" -> TRUE
      [] ty[1] = "Option" -> Auto(trait, Tail(ty))
      [] ty[1] = "Mutex" -> Auto("Send", Tail(ty))
      [] ty[1] = "Arc" -> Auto("Send", Tail(ty)) /\ Auto("Sync", Tail(ty))
      [] ty[1] = "Ref" -> Auto("Sync", Tail(ty))
      [] OTHER -> \/ ty[1] \in UnsafeImpl(trait)
                  \/ \A f \in Fields(ty[1]) : Auto(trait, f)

Values == {"RandomXVM", "RandomXCache", "RandomXDataset"}
Wrappers == {<<>>, <<"Arc">>, <<"Mutex">>, <<"Arc", "Mutex">>}

\* #[derive(Clone)]; an Arc is Clone whatever it holds
Cloneable(w, x) == x \in {"RandomXCache", "RandomXDataset"} \/ (w # <<>> /\ w[1] = "Arc")

Creator == 1

Confined == [access |-> [x \in Values |-> "none"], running |-> "none"]

InitConfine ==
    /\ Install(BuildHeap(<<1>>, <<1>>, "both"))
    /\ threads = [t \in Threads |->
                     IF t = Creator
                     THEN [Confined EXCEPT !.access = [x \in Values |-> "owned"]]
                     ELSE Confined]
    /\ lock_owner = Null

ConfineStep(th) ==
    /\ threads' = th
    /\ CommitHeap(Heap)
    /\ UNCHANGED lock_owner

\* thread::spawn(move || ..): the value, wrapped in w, is moved to thread u
MoveTo ==
    \E t \in Threads, u \in Threads \ {Creator}, x \in Values, w \in Wrappers :
        /\ t # u
        /\ threads[t].access[x] = "owned"
        /\ threads[t].running # x
        /\ threads[u].access[x] = "none"
        /\ Auto("Send", w \o <<x>>)
        /\ ConfineStep([threads EXCEPT ![t].access[x] = "none", ![u].access[x] = "owned"])

\* thread::spawn(move || ..) of a clone
CloneTo ==
    \E t \in Threads, u \in Threads \ {Creator}, x \in Values, w \in Wrappers :
        /\ t # u
        /\ threads[t].access[x] = "owned"
        /\ threads[u].access[x] = "none"
        /\ Cloneable(w, x)
        /\ Auto("Send", w \o <<x>>)
        /\ ConfineStep([threads EXCEPT ![u].access[x] = "owned"])

\* thread::scope(|s| s.spawn(|| ..)): thread u borrows the value
LendTo ==
    \E t \in Threads, u \in Threads \ {Creator}, x \in Values, w \in Wrappers :
        /\ t # u
        /\ threads[t].access[x] = "owned"
        /\ threads[u].access[x] = "none"
        /\ Auto("Send", <<"Ref">> \o w \o <<x>>)
        /\ ConfineStep([threads EXCEPT ![u].access[x] = "borrowed"])

\* the thread lets go of what it holds
Release ==
    \E u \in Threads \ {Creator}, x \in Values :
        /\ threads[u].access[x] # "none"
        /\ threads[u].running # x
        /\ ConfineStep([threads EXCEPT ![u].access[x] = "none"])

\* an operation on the value begins on a thread that can reach it
RunBegin ==
    \E t \in Threads, x \in Values :
        /\ threads[t].access[x] # "none"
        /\ threads[t].running = "none"
        /\ ConfineStep([threads EXCEPT ![t].running = x])

RunEnd ==
    \E t \in Threads :
        /\ threads[t].running # "none"
        /\ ConfineStep([threads EXCEPT ![t].running = "none"])

NextConfine ==
    \/ MoveTo
    \/ CloneTo
    \/ LendTo
    \/ Release
    \/ RunBegin
    \/ RunEnd

SpecConfine == InitConfine /\ [][NextConfine]_vars

(* C19: RandomXVM is neither Send nor Sync while RandomXCache and          *)
(* RandomXDataset are both; no thread but the one that made the VM ever    *)
(* reaches it, whether moved, cloned or borrowed, bare or wrapped, so no   *)
(* two threads run operations of the VM at overlapping times.              *)
C19_VmConfined ==
    /\ ~Auto("Send", <<"RandomXVM">>)
    /\ ~Auto("Sync", <<"RandomXVM">>)
    /\ \A x \in {"RandomXCache", "RandomXDataset"} : Auto("Send", <<x>>) /\ Auto("Sync", <<x>>)
    /\ \A t \in Threads \ {Creator} : threads[t].access["RandomXVM"] = "none"
    /\ Cardinality({t \in Threads : threads[t].running = "RandomXVM"}) <= 1

\* a clone of the cache and a clone of the dataset are in another thread,
\* which runs an operation on one while the creator runs one on its VM
C19_Witness ==
    \E u \in Threads \ {Creator} :
        /\ threads[u].access["RandomXCache"] = "owned"
        /\ threads[u].access["RandomXDataset"] = "owned"
        /\ threads[Creator].access["RandomXCache"] = "owned"
        /\ threads[u].running = "RandomXDataset"
        /\ threads[Creator].running = "RandomXVM"

-----------------------------------------------------------------------------
\* the engine calls of the last operation that take a VM handle
VmCalls ==
    {i \in 1..Len(calls) :
        calls[i].fn \in {"vm_set_cache", "vm_set_dataset", "calculate_hash",
                         "calculate_hash_first", "calculate_hash_next",
                         "calculate_hash_last"}}

(* C20: when create_vm returns a null handle VM::new returns               *)
(* CreationError; every VM returned by new holds a non-null native handle, *)
(* and no hash or rebind call is made on a null VM handle.                 *)
C20_NullVmSurfaced ==
    /\ (/\ ret.op = "VM::new"
        /\ \E i \in 1..Len(calls) : calls[i].fn = "create_vm" /\ calls[i].vm = Null)
           => ret.res = "CreationError"
    /\ \A v \in LiveVMs : vms[v].vm # Null
    /\ \A i \in VmCalls : calls[i].vm # Null

-----------------------------------------------------------------------------
(* SpecPoison: the life cycle of Spec with a lock that can be poisoned.    *)
(* No operation of the crate panics while it holds the guard, so the lock  *)
(* is poisoned only by code inside the crate that does; Poison stands for  *)
(* that code.  From then on lock() returns Err: unwrap() panics, and Drop  *)
(* skips the release.  A panic unwinds: the values the operation owns are  *)
(* dropped.                                                                *)

Poison ==
    \E c \in CacheIds :
        /\ caches[c].st = "live"
        /\ ~caches[c].poisoned
        /\ Commit(Return([Begin EXCEPT !.caches[c].poisoned = TRUE], "poison", c, "Ok", <<>>))

PoisonStarts == {U32(0), <<Limb - 1, Limb - NumItems>>}
PoisonRanges == {<<U32(0), U32(NumItems)>>, <<<<Limb - 1, Limb - 1>>, U32(1)>>}

InitPoison ==
    /\ Install(EmptyHeap)
    /\ threads = <<>>
    /\ lock_owner = Null

NextPoison ==
    \/ NewCache(LifeFlags, {<<1>>})
    \/ CloneCache
    \/ DropCache
    \/ Poison
    \/ CacheInit({<<1>>})
    \/ NewDataset(LifeFlags, PoisonStarts, {ItemCount})
    \/ DropDataset
    \/ DatasetInit(PoisonRanges)
    \/ NewVM({FLAG_DEFAULT})
    \/ ReinitCache
    \/ DropVMAction

SpecPoison == InitPoison /\ [][NextPoison]_vars

\* the release_cache calls on the handle p in the log
ReleaseCalls(log, p) ==
    Cardinality({i \in 1..Len(log) : log[i].fn = "release_cache" /\ log[i].cache = p})

C21_Drop ==
    /\ \A c \in CacheIds :
           (caches[c].st = "live" /\ caches'[c].st = "dropped") =>
               LET p == caches[c].cache_ptr
               IN  /\ p # Null
                   /\ ReleaseCalls(calls', p) = (IF caches[c].poisoned THEN 0 ELSE 1)
                   /\ ncache'[p].released = (IF caches[c].poisoned THEN 0 ELSE 1)
                   /\ ret'.res = "panic" => ret'.op \notin {"drop(Cache)", "drop(Dataset)", "drop(VM)"}
    /\ \A p \in CacheIds :
           /\ ncache'[p].released <= 1
           /\ ReleaseCalls(calls', p) = ncache'[p].released - ncache[p].released

(* C21: when the last holder of a Cache is dropped while the lock is       *)
(* poisoned, release_cache is not called and the drop does not panic; when *)
(* the lock is not poisoned release_cache is called exactly once on the    *)
(* handle.  No handle is ever released twice.                              *)
C21_PoisonedLeaks == [][C21_Drop]_vars

\* the last handle of a cache with a poisoned lock was dropped: the native
\* cache is still allocated and was never released
C21_Witness ==
    /\ ret.op = "drop(Cache)"
    /\ ret.res = "Ok"
    /\ caches[ret.obj].st = "dropped"
    /\ ncache[ret.obj].allocated
    /\ ncache[ret.obj].released = 0
    /\ calls = <<>>

(* C22: no public operation panics: every operation returns Ok or a typed *)
(* RandomXError, for every start and item_count and whatever the state of  *)
(* the cache's lock.                                                       *)
C22_NeverPanics == ret.res # "panic"

-----------------------------------------------------------------------------
(* SpecChunks: a Dataset from alloc is built in chunks.  The item range is *)
(* cut into pairwise disjoint chunks that cover it, every chunk is given   *)
(* to a thread, and every thread holds a clone of the Dataset and runs     *)
(* init(start, count) for its chunks in any order: the range check, the    *)
(* lock of the cache to copy its handle, then the native init_dataset,     *)
(* which the steps of the other threads overlap.  The cache is not         *)
(* re-initialized.                                                         *)

Chunks ==
    {ch \in (0..(NumItems - 1)) \X (1..NumItems) : ch[1] + ch[2] <= NumItems}

Covered(P, i) == {ch \in P : ch[1] <= i /\ i < ch[1] + ch[2]}

Partitions ==
    {P \in SUBSET Chunks : \A i \in 0..(NumItems - 1) : Cardinality(Covered(P, i)) = 1}

RECURSIVE CloneDatasetFor(_, _)
CloneDatasetFor(h, n) ==
    IF n = 0 THEN h ELSE CloneDatasetFor(ArcCloneDataset(h, 1), n - 1)

ChunkHeap(key) ==
    LET h1 == TakeCache(RandomXCache_new(EmptyHeap, FLAG_DEFAULT, key, 1))
        h2 == TakeDataset(RandomXDataset_alloc(ArcCloneCache(h1, 1), FLAG_DEFAULT, 1, 1,
                                               ItemCount))
    IN  CloneDatasetFor(h2, NumThreads)

Worker(todo) == [pc |-> "idle", todo |-> todo, cur |-> <<>>, wrote |-> <<>>, failed |-> FALSE]

InitChunks ==
    /\ \E key \in NonEmptyBytes : Install(ChunkHeap(key))
    /\ \E P \in Partitions :
           \E f \in [P -> Threads] :
               threads = [t \in Threads |-> Worker({ch \in P : f[ch] = t})]
    /\ lock_owner = Null

\* init(start, count) is called with the next chunk
ChunkStart ==
    \E t \in Threads :
        \E ch \in threads[t].todo :
            /\ threads[t].pc = "idle"
            /\ threads' = [threads EXCEPT ![t].pc = "lock", ![t].cur = ch,
                                          ![t].todo = @ \ {ch}]
            /\ CommitHeap(Heap)
            /\ UNCHANGED lock_owner

\* cache_ptr.lock().unwrap()
ChunkLock ==
    \E t \in Threads :
        /\ threads[t].pc = "lock"
        /\ lock_owner = Null
        /\ lock_owner' = t
        /\ threads' = [threads EXCEPT ![t].pc = "locked"]
        /\ CommitHeap(Heap)

\* the handle is copied and the guard dropped
ChunkUnlock ==
    \E t \in Threads :
        /\ threads[t].pc = "locked"
        /\ lock_owner = t
        /\ lock_owner' = Null
        /\ threads' = [threads EXCEPT ![t].pc = "native"]
        /\ CommitHeap(Heap)

\* the item indices the init_dataset calls of the log asked the engine for
RECURSIVE ItemsOf(_)
ItemsOf(log) ==
    IF log = <<>> THEN <<>>
    ELSE LET rest == ItemsOf(Tail(log))
             some == {i \in 0..(NumItems - 1) :
                         /\ Head(log).fn = "init_dataset"
                         /\ InRange(i, Head(log).data[1], Head(log).data[2])}
             RECURSIVE AsSeq(_)
             AsSeq(S) == IF S = {} THEN <<>>
                         ELSE LET i == CHOOSE j \in S : \A k \in S : j <= k
                              IN  <<i>> \o AsSeq(S \ {i})
         IN  AsSeq(some) \o rest

\* randomx_init_dataset returns, and init with it
ChunkDone ==
    \E t \in Threads :
        LET ch == threads[t].cur
            start == U32(ch[1])
            item_count == U32(ch[2])
            h == WithArgs(RandomXDataset_init(Begin, 1, start, item_count,
                                              WrappingAdd(start, item_count)),
                          <<start, item_count>>)
        IN  /\ threads[t].pc = "native"
            /\ CommitHeap(h)
            /\ threads' = [threads EXCEPT ![t].pc = "idle",
                               ![t].wrote = @ \o ItemsOf(h.calls),
                               ![t].failed = @ \/ h.ret.res # "Ok"]
            /\ UNCHANGED lock_owner

NextChunks ==
    \/ ChunkStart
    \/ ChunkLock
    \/ ChunkUnlock
    \/ ChunkDone

SpecChunks == InitChunks /\ [][NextChunks]_vars

\* how many times item i was written so far
Writes(i) ==
    Cardinality({<<t, k>> \in Threads \X (1..NumItems) :
                    k <= Len(threads[t].wrote) /\ threads[t].wrote[k] = i})

AllChunksDone == \A t \in Threads : threads[t].pc = "idle" /\ threads[t].todo = {}

(* C23: init calls over pairwise disjoint ranges that cover the item range *)
(* of a Dataset from alloc, run in any order and from several threads on   *)
(* clones of the Dataset, all succeed; no item is written by two calls;    *)
(* and when all have returned every item has been expanded from the key of *)
(* the bound cache.                                                        *)
C23_ChunkedBuild ==
    /\ \A t \in Threads : ~threads[t].failed /\ Len(threads[t].wrote) <= NumItems
    /\ \A i \in 0..(NumItems - 1) :
           /\ Writes(i) <= 1
           /\ Writes(i) = 1 => ndataset[1].items[i] = ncache[1].key
           /\ Writes(i) = 0 => ndataset[1].items[i] = <<>>
    /\ AllChunksDone =>
           /\ \A i \in 0..(NumItems - 1) : Writes(i) = 1
           /\ DatasetKey(Heap, 1) = ncache[1].key

\* all chunks are built, and two threads built some of them
C23_Witness ==
    /\ AllChunksDone
    /\ \E t \in Threads, u \in Threads : 
           /\ t # u
           /\ threads[t].wrote # <<>>
           /\ threads[u].wrote # <<>>
    /\ ret.op = "Dataset::init"
    /\ ret.res = "Ok"
    /\ DatasetKey(Heap, 1) = ncache[1].key

-----------------------------------------------------------------------------
\* the positions of the calls of fn in the log
CallsOf(log, fn) == {i \in 1..Len(log) : log[i].fn = fn}

C24_Drop ==
    /\ ret'.op = "drop(VM)" =>
           LET p == vms[ret'.obj].vm
           IN  IF p = Null
               THEN CallsOf(calls', "destroy_vm") = {}
               ELSE /\ CallsOf(calls', "destroy_vm") = {1}
                    /\ calls'[1].vm = p
                    /\ nvm'[p].destroyed = 1
                    /\ nvm[p].destroyed = 0
    /\ ret'.op # "drop(VM)" => CallsOf(calls', "destroy_vm") = {}
    /\ \A p \in VmIds :
           (nvm'[p].created /\ nvm'[p].destroyed = 0) =>
               /\ nvm'[p].cache # Null => ncache'[nvm'[p].cache].released = 0
               /\ nvm'[p].dataset # Null => ndataset'[nvm'[p].dataset].released = 0

(* C24: dropping a VM calls destroy_vm exactly once on its non-null handle *)
(* and before any release of a cache or dataset the VM held the last       *)
(* reference of; no native VM that is not yet destroyed is bound to a      *)
(* released cache or dataset.                                              *)
C24_DestroyBeforeRelease == [][C24_Drop]_vars

\* a VM that held the last references of its cache and dataset was dropped
C24_Witness ==
    /\ ret.op = "drop(VM)"
    /\ CallsOf(calls, "destroy_vm") = {1}
    /\ CallsOf(calls, "release_dataset") # {}
    /\ CallsOf(calls, "release_cache") # {}

-----------------------------------------------------------------------------
(* C25: calculate_hash_set over two or more inputs leaves no computation   *)
(* in flight: whenever hash_first was called, exactly one hash_last is     *)
(* called, as the last engine call, before the call returns, on every      *)
(* return path.                                                            *)
C25_NothingInFlight ==
    (/\ ret.op = "calculate_hash_set"
     /\ Len(ret.args[1]) >= 2
     /\ CountIn(calls, "calculate_hash_first") >= 1) =>
        /\ CountIn(calls, "calculate_hash_last") = 1
        /\ calls[Len(calls)].fn = "calculate_hash_last"
        /\ vms[ret.obj].vm # Null => nvm[vms[ret.obj].vm].inflight = <<>>

(* C26: in calculate_hash_set over two or more inputs, when the engine     *)
(* writes no digest at a retrieval step the call returns the Other error,  *)
(* at the first retrieval and at the later ones; a successful result holds *)
(* at every position the digest of the input at that position.             *)
C26_StaleRejected ==
    (ret.op = "calculate_hash_set" /\ Len(ret.args[1]) >= 2) =>
        /\ (\E j \in DOMAIN ret.args[2] : ret.args[2][j] = "nowrite") => ret.res = "Other"
        /\ ret.res = "Ok" =>
               \A j \in DOMAIN ret.val :
                   ret.val[j] = Digest(HashKey(Heap, vms[ret.obj].vm), ret.args[1][j])

-----------------------------------------------------------------------------
(* SpecNull: the values of test_null_assignments next to a working VM.  A  *)
(* light-mode VM is built over cache 1; cache 2 is a RandomXCache whose    *)
(* handle is null and dataset 1 a RandomXDataset whose handle is null,     *)
(* with item count 0, over a clone of cache 2.  Neither can be made with   *)
(* new or alloc, which reject a null handle: the test builds them from     *)
(* their fields.  The caller rebinds the VM to the caches and the dataset  *)
(* and hashes.                                                             *)

NullHeap ==
    LET h == HashHeap
    IN  [h EXCEPT !.caches[2] = [st |-> "live", strong |-> 2, cache_ptr |-> Null,
                                 poisoned |-> FALSE],
                  !.ext_cache[2] = 1,
                  !.datasets[1] = [st |-> "live", strong |-> 1, dataset_ptr |-> Null,
                                   dataset_count |-> U32(0), cache |-> 2],
                  !.ext_dataset[1] = 1]

InitNull ==
    /\ Install(NullHeap)
    /\ threads = <<>>
    /\ lock_owner = Null

NextNull ==
    \/ CloneCache
    \/ CloneDataset
    \/ DropCache
    \/ DropDataset
    \/ ReinitCache
    \/ ReinitDataset
    \/ CalculateHash({<<1>>}, {"ok"})

SpecNull == InitNull /\ [][NextNull]_vars

C27_Rebind ==
    /\ (/\ ret'.op = "reinit_cache"
        /\ ~contains(vms[ret'.obj].flags, FLAG_FULL_MEM)
        /\ caches[ret'.args[1]].cache_ptr = Null) =>
           /\ ret'.res \notin {"Ok", "panic"}
           /\ CallsOf(calls', "vm_set_cache") = {}
    /\ (/\ ret'.op = "reinit_dataset"
        /\ ~contains(vms[ret'.obj].flags, FLAG_FULL_MEM)
        /\ datasets[ret'.args[1]].dataset_ptr = Null) =>
           /\ ret'.res \notin {"Ok", "panic"}
           /\ CallsOf(calls', "vm_set_dataset") = {}
    /\ \A i \in CallsOf(calls', "vm_set_cache") : calls'[i].cache # Null
    /\ \A i \in CallsOf(calls', "vm_set_dataset") : calls'[i].dataset # Null

(* C27: on a VM whose flags do not contain FLAG_FULL_MEM, reinit_cache     *)
(* with a Cache whose native handle is null returns an error, and so does  *)
(* reinit_dataset with a Dataset whose native handle is null; no null      *)
(* handle is passed to vm_set_cache or vm_set_dataset.                     *)
C27_NullRebindRejected == [][C27_Rebind]_vars

====
